---- MODULE Spec2Model ----
(***************************************************************************)
(* A model of the RIFF/WAVE codec of arduino-audio-tools (src/CodecWAV.h): *)
(* the header scanner WAVHeader, the streaming WAVDecoder and the          *)
(* WAVEncoder, and of the sample converters (src/AudioTools/Converter.h),  *)
(* each operation translated from its C++ body.                            *)
(*                                                                         *)
(* Target: a 32-bit little-endian build (ESP32 / Arduino): int, long and   *)
(* size_t are 32 bits wide.  A 32-bit word is kept as two 16-bit limbs     *)
(* [hi, lo], so that every intermediate of the arithmetic stays inside the *)
(* range of the model checker's integers while the words keep their width. *)
(***************************************************************************)
EXTENDS Integers, Sequences, FiniteSets, TLC

VARIABLES
    enc,      \* the WAVEncoder object
    sink,     \* the byte sink (Stream / Print) the codec writes to
    sess,     \* history of the encoder session opened by the last begin
    hdr,      \* the WAVHeader object
    snd,      \* what the last soundData call returned
    inp,      \* history: how the buffer of the last scan was built
    dec,      \* the WAVDecoder object (its WAVHeader member is hdr)
    lis,      \* the format listener (AudioBaseInfoDependent): calls received
    last,     \* history: the last call, its result and the state it started in
    cnv,      \* a sample converter object (Converter.h)
    pcm,      \* the caller's buffer of stereo frames, as the last convert left it
    crashed,  \* the program was ended by a trap (division by zero, wild pointer)
    steps     \* number of calls made so far

vars == <<enc, sink, sess, hdr, snd, inp, dec, lis, cnv, pcm, last, crashed, steps>>

encVars == <<enc, sess>>

hdrVars == <<hdr, snd, inp>>

decVars == <<dec, lis>>

cnvVars == <<cnv, pcm>>

----------------------------------------------------------------------------
(* Bounds of the model *)

\* calls per behaviour
MaxSteps == 5

\* calls on the scanner per behaviour
MaxScans == 3

\* calls on the decoder per behaviour
MaxDecCalls == 4

\* loop passes one scan may take
MaxPasses == 40

\* convert calls on one converter per behaviour
MaxConverts == 3

----------------------------------------------------------------------------
(* 32-bit words as two 16-bit limbs *)

Limb == 256 * 256

W(h, l) == [hi |-> h, lo |-> l]

\* a natural number below 2^31 as a word
U(n) == W(n \div Limb, n % Limb)

Zero32 == W(0, 0)

\* ~0
AllOnes == W(65535, 65535)

Min(a, b) == IF a < b THEN a ELSE b

Max(a, b) == IF a > b THEN a ELSE b

Lt32(a, b) == a.hi < b.hi \/ (a.hi = b.hi /\ a.lo < b.lo)

Ge32(a, b) == ~Lt32(a, b)

\* a + b mod 2^32
Add32(a, b) ==
    LET l == a.lo + b.lo
    IN  W((a.hi + b.hi + (l \div Limb)) % Limb, l % Limb)

\* a - b mod 2^32
Sub32(a, b) ==
    LET l == a.lo - b.lo
        borrow == IF l < 0 THEN 1 ELSE 0
    IN  W((a.hi - b.hi - borrow) % Limb, l % Limb)

Neg32(a) == Sub32(Zero32, a)

\* the 32-bit product of two 16-bit numbers, by bytes of y
Mul16(x, y) ==
    LET t0 == x * (y % 256)
        t1 == x * (y \div 256)
        l  == (t0 % Limb) + (t1 % 256) * 256
    IN  W(((t0 \div Limb) + (t1 \div 256) + (l \div Limb)) % Limb, l % Limb)

\* a * b mod 2^32 (the wrapped result of int / uint32_t multiplication)
Mul32(a, b) ==
    LET ll == Mul16(a.lo, b.lo)
        hl == Mul16(a.hi, b.lo)
        lh == Mul16(a.lo, b.hi)
    IN  W((ll.hi + hl.lo + lh.lo) % Limb, ll.lo)

\* logical shift right by three bits
Shr3(a) == W(a.hi \div 8, (a.lo \div 8) + (a.hi % 8) * 8192)

IsNeg32(a) == a.hi >= 32768

\* int division by 8, truncating towards zero
SDiv8(a) == IF IsNeg32(a) THEN Neg32(Shr3(Neg32(a))) ELSE Shr3(a)

\* the value of a word known to be below 2^31
Nat32(a) == a.hi * Limb + a.lo

----------------------------------------------------------------------------
(* Bytes *)

\* TAG(a, b, c, d)
TAG(a, b, c, d) == W(a * 256 + b, c * 256 + d)

TagBytes(t) == <<t.hi \div 256, t.hi % 256, t.lo \div 256, t.lo % 256>>

TagRIFF == TAG(82, 73, 70, 70)

TagWAVE == TAG(87, 65, 86, 69)

TagFmt == TAG(102, 109, 116, 32)

TagData == TAG(100, 97, 116, 97)

\* 0x7fff0000
StreamedLimit == W(32767, 0)

WAV_FORMAT_PCM == U(1)

\* 0xfffe
FormatExtensible == W(0, 65534)

----------------------------------------------------------------------------
(* The sink: Stream::write(bytes, n) returns the count it accepted.  A     *)
(* sink with room < 0 accepts every byte; otherwise it accepts bytes until *)
(* its room is used up.  offered records, for every byte handed to write,  *)
(* whether it was a header byte ("h") or a payload byte ("p").             *)

SinkWrite(s, bytes, tag) ==
    LET n == Len(bytes)
        k == IF s.room < 0 THEN n ELSE Min(n, s.room)
    IN  [sink |-> [s EXCEPT !.data = @ \o SubSeq(bytes, 1, k),
                            !.offered = @ \o [i \in 1..n |-> tag],
                            !.room = IF @ < 0 THEN @ ELSE @ - k],
         n |-> k]

SinkFlush(s) == [s EXCEPT !.flushes = @ + 1]

----------------------------------------------------------------------------
(* WAVEncoder *)

DEFAULT_SAMPLE_RATE == 44100

DEFAULT_BITS_PER_SAMPLE == 16

DEFAULT_CHANNELS == 2

\* WAVEncoder::defaultConfig; byte_rate and block_align are left unset by
\* the code and are overwritten by begin before anything reads them
defaultConfig ==
    [format |-> WAV_FORMAT_PCM,
     sample_rate |-> U(DEFAULT_SAMPLE_RATE),
     bits_per_sample |-> U(DEFAULT_BITS_PER_SAMPLE),
     channels |-> U(DEFAULT_CHANNELS),
     byte_rate |-> Zero32,
     block_align |-> Zero32,
     is_streamed |-> FALSE,
     is_valid |-> TRUE,
     data_length |-> StreamedLimit,
     file_size |-> Add32(StreamedLimit, U(36))]

\* write32(stream, uint64_t value): the first four bytes of the value in
\* memory, on a little-endian machine its low 32 bits, low byte first
write32(s, value) ==
    SinkWrite(s, <<value.lo % 256, value.lo \div 256,
                   value.hi % 256, value.hi \div 256>>, "h").sink

\* write16(stream, uint16_t value): the value is cut to 16 bits
write16(s, value) ==
    SinkWrite(s, <<value.lo % 256, value.lo \div 256>>, "h").sink

writeRiffHeader(ai, s) ==
    LET s1 == SinkWrite(s, TagBytes(TagRIFF), "h").sink
        s2 == write32(s1, Sub32(ai.file_size, U(8)))
    IN  SinkWrite(s2, TagBytes(TagWAVE), "h").sink

\* writeFMT with channels and format written in the wrong order
writeFMTSwapped(ai, s) ==
    LET byteRate   == SDiv8(Mul32(Mul32(ai.sample_rate, ai.bits_per_sample), ai.channels))
        frame_size == SDiv8(Mul32(ai.channels, ai.bits_per_sample))
        s1 == SinkWrite(s, TagBytes(TagFmt), "h").sink
        s2 == write32(s1, U(16))
        s3 == write16(s2, ai.channels)
        s4 == write16(s3, ai.format)
        s5 == write32(s4, ai.sample_rate)
        s6 == write32(s5, byteRate)
        s7 == write16(s6, frame_size)
    IN  write16(s7, ai.bits_per_sample)

writeFMT(ai, s) ==
    LET fmt_len    == U(16)
        byteRate   == SDiv8(Mul32(Mul32(ai.sample_rate, ai.bits_per_sample), ai.channels))
        frame_size == SDiv8(Mul32(ai.channels, ai.bits_per_sample))
        s1 == SinkWrite(s, TagBytes(TagFmt), "h").sink
        s2 == write32(s1, fmt_len)
        s3 == write16(s2, ai.format)
        s4 == write16(s3, ai.channels)
        s5 == write32(s4, ai.sample_rate)
        s6 == write32(s5, byteRate)
        s7 == write16(s6, frame_size)
    IN  write16(s7, ai.bits_per_sample)

\* writeDataHeader: returns the audioInfo it changed and the sink
writeDataHeader(ai, s) ==
    LET s1  == SinkWrite(s, TagBytes(TagData), "h").sink
        ai1 == [ai EXCEPT !.file_size = Sub32(@, U(44))]
    IN  [audioInfo |-> ai1, sink |-> write32(s1, ai1.file_size)]

\* EncBegin that decides by the declared data_length alone
EncBeginByLength(e, ai) ==
    LET a1 == [ai EXCEPT !.byte_rate = Mul32(Mul32(ai.sample_rate, ai.bits_per_sample), ai.channels),
                         !.block_align = Mul32(SDiv8(ai.bits_per_sample), ai.channels)]
        streamed == a1.data_length = Zero32 \/ Ge32(a1.data_length, StreamedLimit)
    IN  IF streamed
        THEN [e EXCEPT !.header_written = FALSE, !.is_open = TRUE,
                       !.audioInfo = [a1 EXCEPT !.is_streamed = TRUE, !.data_length = AllOnes]]
        ELSE [e EXCEPT !.header_written = FALSE, !.is_open = TRUE,
                       !.audioInfo = [a1 EXCEPT !.is_streamed = FALSE],
                       !.size_limit = Nat32(a1.data_length)]

\* WAVEncoder::begin(WAVAudioInfo &ai)
EncBegin(e, ai) ==
    LET a1 == [ai EXCEPT !.byte_rate = Mul32(Mul32(ai.sample_rate, ai.bits_per_sample), ai.channels),
                         !.block_align = Mul32(SDiv8(ai.bits_per_sample), ai.channels)]
        streamed == a1.is_streamed \/ a1.data_length = Zero32
                        \/ Ge32(a1.data_length, StreamedLimit)
    IN  IF streamed
        THEN [e EXCEPT !.header_written = FALSE, !.is_open = TRUE,
                       !.audioInfo = [a1 EXCEPT !.is_streamed = TRUE, !.data_length = AllOnes]]
        ELSE [e EXCEPT !.header_written = FALSE, !.is_open = TRUE,
                       !.audioInfo = a1, !.size_limit = Nat32(a1.data_length)]

\* WAVEncoder::begin(Stream &out, WAVAudioInfo &ai)
EncBeginStream(e, ai) == EncBegin([e EXCEPT !.stream_ptr = "out"], ai)

\* WAVEncoder::end
EncEnd(e) == [e EXCEPT !.is_open = FALSE]

Outcome(e, s, r, c) == [enc |-> e, sink |-> s, ret |-> r, crashed |-> c]

\* EncHeader with the header_written flag never set
EncHeaderEveryWrite(e, s) ==
    LET d == writeDataHeader(e.audioInfo, writeFMT(e.audioInfo, writeRiffHeader(e.audioInfo, s)))
    IN  [enc |-> [e EXCEPT !.audioInfo = d.audioInfo], sink |-> d.sink]

\* the header part of write (lines 390-396)
EncHeader(e, s) ==
    IF e.header_written
    THEN [enc |-> e, sink |-> s]
    ELSE LET d == writeDataHeader(e.audioInfo, writeFMT(e.audioInfo, writeRiffHeader(e.audioInfo, s)))
         IN  [enc |-> [e EXCEPT !.audioInfo = d.audioInfo, !.header_written = TRUE],
              sink |-> d.sink]

\* EncPayload with the write not cut to the remaining budget
EncPayloadNoClamp(e, s, buf) ==
    IF e.audioInfo.is_streamed
    THEN LET w == SinkWrite(s, buf, "p")
         IN  Outcome(e, w.sink, w.n, FALSE)
    ELSE IF e.size_limit > 0
    THEN LET w  == SinkWrite(s, buf, "p")
             e1 == [e EXCEPT !.size_limit = @ - w.n]
         IN  IF e1.size_limit <= 0
             THEN Outcome([e1 EXCEPT !.is_open = FALSE], SinkFlush(w.sink), w.n, FALSE)
             ELSE Outcome(e1, w.sink, w.n, FALSE)
    ELSE Outcome(e, s, 0, FALSE)

\* the payload part of write (lines 398-412)
EncPayload(e, s, buf) ==
    IF e.audioInfo.is_streamed
    THEN LET w == SinkWrite(s, buf, "p")
         IN  Outcome(e, w.sink, w.n, FALSE)
    ELSE IF e.size_limit > 0
    THEN LET write_size == Min(Len(buf), e.size_limit)
             w  == SinkWrite(s, SubSeq(buf, 1, write_size), "p")
             e1 == [e EXCEPT !.size_limit = @ - w.n]
         IN  IF e1.size_limit <= 0
             THEN Outcome([e1 EXCEPT !.is_open = FALSE], SinkFlush(w.sink), w.n, FALSE)
             ELSE Outcome(e1, w.sink, w.n, FALSE)
    ELSE Outcome(e, s, 0, FALSE)

\* WAVEncoder::write: the set of outcomes.  A write while not open executes
\* 10 / 0, which is undefined: a build either drops the unused division and
\* returns 0, or traps.  A write through an uninitialised stream_ptr traps.
EncWrite(e, s, buf) ==
    IF ~e.is_open
    THEN {Outcome(e, s, 0, FALSE), Outcome(e, s, 0, TRUE)}
    ELSE IF e.stream_ptr = "null"
    THEN {Outcome(e, s, 0, FALSE)}
    ELSE IF e.stream_ptr = "wild"
    THEN {Outcome(e, s, 0, TRUE)}
    ELSE LET h == EncHeader(e, s)
         IN  {EncPayload(h.enc, h.sink, buf)}

----------------------------------------------------------------------------
(* WAVHeader: the scanner.  The object is a record of its members; the     *)
(* locals of begin that live across loop iterations (length) and the place *)
(* begin has reached (pc) are kept in the record as well.                  *)

\* memset(&headerInfo, 0, sizeof(WAVAudioInfo))
ZeroInfo ==
    [format |-> Zero32, sample_rate |-> Zero32, bits_per_sample |-> Zero32,
     channels |-> Zero32, byte_rate |-> Zero32, block_align |-> Zero32,
     is_streamed |-> FALSE, is_valid |-> FALSE,
     data_length |-> Zero32, file_size |-> Zero32]

\* a WAVHeader after construction
NewHeader ==
    [headerInfo |-> ZeroInfo, buffer |-> <<>>, len |-> Zero32,
     data_pos |-> Zero32, sound_pos |-> Zero32, length |-> Zero32, pc |-> "idle"]

\* bool eof(): data_pos >= len - 1, in size_t arithmetic
eof(h) == Ge32(h.data_pos, Sub32(h.len, U(1)))

\* int getChar(): the byte under the cursor, or -1 at the end of the buffer
getChar(h) ==
    IF Lt32(h.data_pos, h.len)
    THEN [v |-> h.buffer[Nat32(h.data_pos) + 1],
          h |-> [h EXCEPT !.data_pos = Add32(@, U(1))]]
    ELSE [v |-> -1, h |-> h]

\* (tag << 8) | c on uint32_t, c an int: -1 sets every bit
ShiftOr(tag, c) ==
    IF c < 0 THEN AllOnes
    ELSE W((tag.hi % 256) * 256 + (tag.lo \div 256), (tag.lo % 256) * 256 + c)

\* uint32_t read_tag(): tag = (tag << 8) | getChar(), four times
read_tag(h) ==
    LET c1 == getChar(h)
        c2 == getChar(c1.h)
        c3 == getChar(c2.h)
        c4 == getChar(c3.h)
        cs == <<c1.v, c2.v, c3.v, c4.v>>
    IN  [v |-> ShiftOr(ShiftOr(ShiftOr(ShiftOr(Zero32, cs[1]), cs[2]), cs[3]), cs[4]),
         h |-> c4.h]

\* the byte that c << k contributes to value |= c << k: getChar returns -1
\* from the end of the buffer on, and -1 << k sets every bit from k upwards
OrByte(c) == IF c < 0 THEN 255 ELSE c

\* uint32_t read_int32(): value |= getChar() << (8 * i) for i = 0 .. 3
read_int32(h) ==
    LET c1 == getChar(h)
        c2 == getChar(c1.h)
        c3 == getChar(c2.h)
        c4 == getChar(c3.h)
        cs == <<OrByte(c1.v), OrByte(c2.v), OrByte(c3.v), OrByte(c4.v)>>
    IN  [v |-> W(cs[4] * 256 + cs[3], cs[2] * 256 + cs[1]), h |-> c4.h]

\* uint16_t read_int16(): value |= getChar() << (8 * i) for i = 0, 1
read_int16(h) ==
    LET c1 == getChar(h)
        c2 == getChar(c1.h)
        cs == <<OrByte(c1.v), OrByte(c2.v)>>
    IN  [v |-> W(0, cs[2] * 256 + cs[1]), h |-> c2.h]

\* void skip(int n): n calls of getChar; a negative n makes none
skip(h, n) ==
    IF IsNeg32(n) \/ ~Lt32(h.data_pos, h.len)
    THEN h
    ELSE LET room == Sub32(h.len, h.data_pos)
         IN  [h EXCEPT !.data_pos = Add32(@, IF Lt32(n, room) THEN n ELSE room)]

\* void seek(long offset, SEEK_CUR): the uint32_t length becomes a 32-bit
\* long with the same bits, and data_pos += offset wraps in size_t
seek(h, offset) == [h EXCEPT !.data_pos = Add32(@, offset)]

\* size_t tell()
tell(h) == h.data_pos

\* begin is between its first and its last line
Scanning(h) == h.pc \in {"outer", "seek", "inner", "data", "tail"}

\* leaving begin (logInfo(); return)
ScanDone(h) == [h EXCEPT !.pc = "done", !.length = Zero32]

\* seek(length, SEEK_CUR); continue; reached from lines 61 and 67
ScanSeek(h) == [seek(h, h.length) EXCEPT !.pc = "outer"]

\* the outer loop of begin from its test up to the seek of a chunk that is
\* not RIFF/WAVE or to the head of the inner loop, lines 50-69
ScanOuter(h) ==
    IF eof(h) THEN ScanDone(h)
    ELSE LET t == read_tag(h)
         IN  IF eof(t.h) THEN ScanDone(t.h)
             ELSE LET l == read_int32(t.h)
                      streamed == l.v = Zero32 \/ Ge32(l.v, StreamedLimit)
                      length == IF streamed THEN AllOnes ELSE l.v
                      h1 == IF streamed
                            THEN [l.h EXCEPT !.headerInfo.is_streamed = TRUE]
                            ELSE l.h
                  IN  IF t.v # TagRIFF \/ Lt32(length, U(4))
                      THEN [h1 EXCEPT !.pc = "seek", !.length = length]
                      ELSE LET t2 == read_tag(h1)
                               length4 == Sub32(length, U(4))
                           IN  IF t2.v # TagWAVE
                               THEN [t2.h EXCEPT !.pc = "seek", !.length = length4]
                               ELSE [t2.h EXCEPT !.pc = "inner", !.length = length4]

\* leaving the inner loop with the given remaining length
ScanBreak(h, length) == [h EXCEPT !.pc = "tail", !.length = length]

\* the `fmt ` branch, lines 81-102; the reads change nothing of the header
\* but its cursor
ScanFmt(h, length, sublength) ==
    IF Lt32(sublength, U(16)) THEN ScanBreak(h, length)
    ELSE LET f1 == read_int16(h)
             f2 == read_int16(f1.h)
             f3 == read_int32(f2.h)
             f4 == read_int32(f3.h)
             f5 == read_int16(f4.h)
             f6 == read_int16(f5.h)
             h1 == [h EXCEPT !.headerInfo.format = f1.v,
                             !.headerInfo.channels = f2.v,
                             !.headerInfo.sample_rate = f3.v,
                             !.headerInfo.byte_rate = f4.v,
                             !.headerInfo.block_align = f5.v,
                             !.headerInfo.bits_per_sample = f6.v,
                             !.data_pos = f6.h.data_pos]
         IN  IF f1.v = FormatExtensible
             THEN IF Lt32(sublength, U(28)) THEN ScanBreak(h1, length)
                  ELSE LET g == read_int32(skip(h1, U(8)))
                           h2 == skip([g.h EXCEPT !.headerInfo.format = g.v],
                                      Sub32(sublength, U(28)))
                       IN  [h2 EXCEPT !.headerInfo.is_valid = TRUE,
                                      !.length = Sub32(length, sublength)]
             ELSE LET h2 == skip(h1, Sub32(sublength, U(16)))
                  IN  [h2 EXCEPT !.headerInfo.is_valid = TRUE,
                                 !.length = Sub32(length, sublength)]

\* ScanData without the streaming case: a data chunk of length 0 is walked
\* past like any other
ScanDataNoStream(h, length, sublength) ==
    LET h1 == [h EXCEPT !.sound_pos = tell(h), !.headerInfo.data_length = sublength]
    IN  [h1 EXCEPT !.pc = "data", !.length = length]

\* the `data` branch up to its seek, lines 103-110; sublength stays in
\* headerInfo.data_length
ScanData(h, length, sublength) ==
    LET h1 == [h EXCEPT !.sound_pos = tell(h), !.headerInfo.data_length = sublength]
    IN  IF sublength = Zero32 \/ h1.headerInfo.is_streamed
        THEN ScanDone([h1 EXCEPT !.headerInfo.is_streamed = TRUE])
        ELSE [h1 EXCEPT !.pc = "data", !.length = length]

\* seek(sublength, SEEK_CUR); length -= sublength; lines 111 and 115
ScanDataSeek(h) ==
    [seek(h, h.headerInfo.data_length) EXCEPT
        !.length = Sub32(@, h.headerInfo.data_length), !.pc = "inner"]

\* one pass of the inner loop of begin, lines 71-116
ScanInner(h) ==
    IF Lt32(h.length, U(8)) THEN ScanBreak(h, h.length)
    ELSE LET st == read_tag(h)
         IN  IF eof(st.h) THEN ScanBreak(st.h, h.length)
             ELSE LET sl == read_int32(st.h)
                      length == Sub32(h.length, U(8))
                  IN  IF Lt32(length, sl.v) THEN ScanBreak(sl.h, length)
                      ELSE IF st.v = TagFmt THEN ScanFmt(sl.h, length, sl.v)
                      ELSE IF st.v = TagData THEN ScanData(sl.h, length, sl.v)
                      ELSE [skip(sl.h, sl.v) EXCEPT !.length = Sub32(length, sl.v)]

\* after the inner loop, lines 117-120
ScanTail(h) ==
    LET h1 == IF h.length # Zero32 THEN seek(h, h.length) ELSE h
    IN  [h1 EXCEPT !.pc = "outer"]

ScanStep(h) ==
    CASE h.pc = "outer" -> ScanOuter(h)
      [] h.pc = "seek"  -> ScanSeek(h)
      [] h.pc = "inner" -> ScanInner(h)
      [] h.pc = "data"  -> ScanDataSeek(h)
      [] h.pc = "tail"  -> ScanTail(h)
      [] OTHER          -> h

\* the loops of begin, run for at most n passes
RECURSIVE ScanRun(_, _)
ScanRun(h, n) ==
    IF Scanning(h) /\ n > 0
    THEN ScanRun(ScanStep(h), n - 1)
    ELSE h

\* begin up to its outer loop, lines 45-49; sound_pos is not touched
HeaderEnter(h, buf) ==
    [h EXCEPT !.buffer = buf, !.len = U(Len(buf)), !.data_pos = Zero32,
              !.headerInfo = ZeroInfo, !.length = Zero32, !.pc = "outer"]

\* void begin(uint8_t* buffer, size_t len)
HeaderBegin(h, buf) == ScanRun(HeaderEnter(h, buf), MaxPasses)

\* bool soundData(uint8_t* &data, size_t &len): ok is the result, pos the
\* offset of data in the buffer
soundData(h) ==
    IF h.sound_pos # Zero32
    THEN LET d == Sub32(h.len, h.sound_pos)
         IN  [ok |-> TRUE, pos |-> h.sound_pos,
              len |-> IF IsNeg32(d) THEN Zero32 ELSE d,
              h |-> [h EXCEPT !.sound_pos = Zero32]]
    ELSE [ok |-> FALSE, pos |-> Zero32, len |-> Zero32, h |-> h]

----------------------------------------------------------------------------
(* WAVDecoder.  d is the decoder's own members (isFirst, isValid, active,  *)
(* and listener: audioBaseInfoSupport != nullptr), h its WAVHeader, s the  *)
(* sink behind out, l the listener.  accept is what                        *)
(* audioBaseInfoSupport->validate(bi) answers if it is called.             *)

DecOutcome(d, h, s, l, r) == [dec |-> d, hdr |-> h, sink |-> s, lis |-> l, ret |-> r]

\* WAVDecoder::begin
DecBegin(d) == [d EXCEPT !.isFirst = TRUE, !.active = TRUE]

\* AudioBaseInfo bi, lines 280-283
BaseInfo(h) ==
    [sample_rate |-> h.headerInfo.sample_rate,
     channels |-> h.headerInfo.channels,
     bits_per_sample |-> h.headerInfo.bits_per_sample]

\* the bytes sound_ptr[0 .. len-1] of the buffer
Slice(buf, sd) == SubSeq(buf, Nat32(sd.pos) + 1, Nat32(sd.pos) + Nat32(sd.len))

\* DecAccept with setAudioInfo called whatever validate answers
DecAcceptSetsAnyway(d, h, s, l, buf, sd, accept) ==
    IF d.listener
    THEN LET l1 == [l EXCEPT !.nvalidate = @ + 1, !.nset = @ + 1, !.info = BaseInfo(h)]
         IN  IF accept
             THEN LET w == SinkWrite(s, Slice(buf, sd), "p")
                  IN  DecOutcome([d EXCEPT !.isValid = TRUE], h, w.sink, l1, w.n)
             ELSE DecOutcome([d EXCEPT !.isValid = FALSE], h, s, l1, 0)
    ELSE DecOutcome([d EXCEPT !.isValid = TRUE], h, s, l, 0)

\* DecAccept with the first sound data written also when no listener is attached
DecAcceptWritesUnasked(d, h, s, l, buf, sd, accept) ==
    IF d.listener
    THEN IF accept
         THEN LET w == SinkWrite(s, Slice(buf, sd), "p")
              IN  DecOutcome([d EXCEPT !.isValid = TRUE], h, w.sink,
                             [l EXCEPT !.nvalidate = @ + 1, !.nset = @ + 1,
                                       !.info = BaseInfo(h)], w.n)
         ELSE DecOutcome([d EXCEPT !.isValid = FALSE], h, s,
                         [l EXCEPT !.nvalidate = @ + 1], 0)
    ELSE LET w == SinkWrite(s, Slice(buf, sd), "p")
         IN  DecOutcome([d EXCEPT !.isValid = TRUE], h, w.sink, l, w.n)

\* the PCM branch of the first write, lines 279-296 (isValid is true here,
\* set by line 274)
DecAccept(d, h, s, l, buf, sd, accept) ==
    IF d.listener
    THEN IF accept
         THEN LET w == SinkWrite(s, Slice(buf, sd), "p")
              IN  DecOutcome([d EXCEPT !.isValid = TRUE], h, w.sink,
                             [l EXCEPT !.nvalidate = @ + 1, !.nset = @ + 1,
                                       !.info = BaseInfo(h)], w.n)
         ELSE DecOutcome([d EXCEPT !.isValid = FALSE], h, s,
                         [l EXCEPT !.nvalidate = @ + 1], 0)
    ELSE DecOutcome([d EXCEPT !.isValid = TRUE], h, s, l, 0)

\* DecScanned without the check of the format code
DecScannedAnyFormat(d, sd, s, l, buf, accept) ==
    IF sd.ok
    THEN DecAccept([d EXCEPT !.isFirst = FALSE], sd.h, s, l, buf, sd, accept)
    ELSE DecOutcome(d, sd.h, s, l, 0)

\* the first write once the header has scanned the buffer, lines 263-297;
\* sd is what soundData answered
DecScanned(d, sd, s, l, buf, accept) ==
    IF sd.ok
    THEN LET d1 == [d EXCEPT !.isFirst = FALSE]
             format == sd.h.headerInfo.format
         IN  IF format # WAV_FORMAT_PCM
             THEN DecOutcome([d1 EXCEPT !.isValid = FALSE], sd.h, s, l, 0)
             ELSE DecAccept(d1, sd.h, s, l, buf, sd, accept)
    ELSE DecOutcome(d, sd.h, s, l, 0)

\* the first write, lines 260-298
DecFirst(d, h, s, l, buf, accept) ==
    DecScanned(d, soundData(HeaderBegin(h, buf)), s, l, buf, accept)

\* DecForward that does not look at isValid
DecForwardAlways(d, h, s, l, buf) ==
    LET w == SinkWrite(s, buf, "p")
    IN  DecOutcome(d, h, w.sink, l, w.n)

\* a write after the first, lines 299-301
DecForward(d, h, s, l, buf) ==
    IF d.isValid
    THEN LET w == SinkWrite(s, buf, "p")
         IN  DecOutcome(d, h, w.sink, l, w.n)
    ELSE DecOutcome(d, h, s, l, 0)

\* WAVDecoder::write
DecWrite(d, h, s, l, buf, accept) ==
    IF d.active
    THEN IF d.isFirst
         THEN DecFirst(d, h, s, l, buf, accept)
         ELSE DecForward(d, h, s, l, buf)
    ELSE DecOutcome(d, h, s, l, 0)

----------------------------------------------------------------------------
(* The encoder driven by a caller *)

\* format descriptors handed to begin
EncLengths == {Zero32, U(2), U(3), StreamedLimit}

EncInfos ==
    {[format |-> WAV_FORMAT_PCM, sample_rate |-> U(8000), bits_per_sample |-> U(16),
      channels |-> U(2), byte_rate |-> Zero32, block_align |-> Zero32,
      is_streamed |-> st, is_valid |-> TRUE, data_length |-> dl,
      file_size |-> Add32(dl, U(36))] :
        <<st, dl>> \in ({FALSE} \X EncLengths) \cup {<<TRUE, U(2)>>}}

\* buffers handed to write
EncBuffers == {<<>>, <<1>>, <<2, 3>>, <<4, 5, 6>>}

\* room of the sink: the sink accepts everything, or fills up
SinkRooms == {-1, 45}

NoCall == [op |-> "none", ret |-> 0, enc |-> 0, sink |-> 0, size |-> 0]

NoSlice == [ok |-> FALSE, pos |-> Zero32, len |-> Zero32]

NoInput == [kind |-> "none"]

\* the state after construction: WAVEncoder() leaves stream_ptr, size_limit
\* and is_open unset, WAVEncoder(Stream&) leaves size_limit and is_open unset
InitEnc ==
    /\ enc \in [stream_ptr : {"null", "out", "wild"},
                audioInfo : {defaultConfig},
                size_limit : {0, 2},
                header_written : {FALSE},
                is_open : BOOLEAN]
    /\ sink \in [data : {<<>>}, offered : {<<>>}, room : SinkRooms, flushes : {0}]
    /\ sess = [begun |-> FALSE, start |-> 0, N |-> 0, bounded |-> FALSE,
               requested |-> 0, writes |-> 0, declared |-> Zero32, asked |-> FALSE]
    /\ hdr = NewHeader /\ snd = NoSlice /\ inp = NoInput
    /\ last = NoCall
    /\ dec = 0 /\ lis = 0
    /\ cnv = 0 /\ pcm = 0
    /\ crashed = FALSE
    /\ steps = 0

Called(op, r, n) == [op |-> op, ret |-> r, enc |-> enc, sink |-> sink, size |-> n]

\* the session a begin(ai) opens: bounded when the caller declared a finite
\* data_length N (0 < N < 0x7FFF0000) and did not ask for streaming;
\* declared and asked are the data_length and the is_streamed flag of ai
NewSession(ai) ==
    LET finite == ~ai.is_streamed /\ ai.data_length # Zero32
                      /\ Lt32(ai.data_length, StreamedLimit)
    IN  [begun |-> TRUE, start |-> Len(sink.offered),
         N |-> IF finite THEN Nat32(ai.data_length) ELSE 0,
         bounded |-> finite, requested |-> 0, writes |-> 0,
         declared |-> ai.data_length, asked |-> ai.is_streamed]

DoEncBegin ==
    /\ ~crashed /\ steps < MaxSteps
    /\ \E ai \in EncInfos :
        /\ enc' = EncBegin(enc, ai)
        /\ sess' = NewSession(ai)
    /\ last' = Called("begin", 0, 0)
    /\ steps' = steps + 1
    /\ UNCHANGED <<sink, crashed, hdrVars, decVars, cnvVars>>

DoEncBeginStream ==
    /\ ~crashed /\ steps < MaxSteps
    /\ \E ai \in EncInfos :
        /\ enc' = EncBeginStream(enc, ai)
        /\ sess' = NewSession(ai)
    /\ last' = Called("begin", 0, 0)
    /\ steps' = steps + 1
    /\ UNCHANGED <<sink, crashed, hdrVars, decVars, cnvVars>>

DoEncEnd ==
    /\ ~crashed /\ steps < MaxSteps
    /\ enc' = EncEnd(enc)
    /\ last' = Called("end", 0, 0)
    /\ steps' = steps + 1
    /\ UNCHANGED <<sink, sess, crashed, hdrVars, decVars, cnvVars>>

DoEncWrite ==
    /\ ~crashed /\ steps < MaxSteps
    /\ \E buf \in EncBuffers : \E o \in EncWrite(enc, sink, buf) :
        /\ enc' = o.enc
        /\ sink' = o.sink
        /\ crashed' = o.crashed
        /\ last' = Called("write", o.ret, Len(buf))
        /\ sess' = IF enc.is_open /\ enc.stream_ptr = "out"
                   THEN [sess EXCEPT !.requested = @ + Len(buf), !.writes = @ + 1]
                   ELSE sess
    /\ steps' = steps + 1
    /\ UNCHANGED <<hdrVars, decVars, cnvVars>>

NextEnc == DoEncBegin \/ DoEncBeginStream \/ DoEncEnd \/ DoEncWrite

SpecEnc == InitEnc /\ [][NextEnc]_vars

----------------------------------------------------------------------------
(* The scanner driven by a caller: begin over a buffer, then soundData *)

LE16(n) == <<n % 256, n \div 256>>

LE32(w) == <<w.lo % 256, w.lo \div 256, w.hi % 256, w.hi \div 256>>

\* a chunk the scanner has no use for: LIST with n bytes
ListChunk(n) == TagBytes(TAG(76, 73, 83, 84)) \o LE32(U(n)) \o [i \in 1..n |-> 20 + i]

\* the body of a fmt chunk of p.fmtlen bytes (16, 18, or 40 with the
\* subformat code at the head of the GUID)
FmtBody(p) ==
    LE16(p.format.lo) \o LE16(p.channels.lo) \o LE32(p.sample_rate)
        \o LE32(SDiv8(Mul32(Mul32(p.sample_rate, p.bits_per_sample), p.channels)))
        \o LE16(SDiv8(Mul32(p.channels, p.bits_per_sample)).lo)
        \o LE16(p.bits_per_sample.lo)
        \o (IF p.fmtlen = 16 THEN <<>>
            ELSE IF p.fmtlen = 18 THEN <<0, 0>>
            ELSE <<22, 0>> \o LE16(p.bits_per_sample.lo) \o LE32(U(3)) \o LE32(p.sub)
                     \o <<0, 0, 16, 0, 128, 0, 0, 170, 0, 56, 155, 113>>)

\* the buffer: RIFF size WAVE, fmt chunk, chunks before data, data header,
\* then the payload bytes present and whatever follows them
MkWav(p) ==
    TagBytes(TagRIFF) \o LE32(p.riff) \o TagBytes(TagWAVE)
        \o TagBytes(TagFmt) \o LE32(U(p.fmtlen)) \o FmtBody(p)
        \o p.mid
        \o TagBytes(TagData) \o LE32(p.dsize) \o p.payload \o p.trailing

\* offset of the first byte after the data header
DataStart(p) == 12 + 8 + p.fmtlen + Len(p.mid) + 8

Payloads == {<<>>, <<10>>, <<10, 11>>, <<10, 11, 12>>}

Trailings == {<<>>, ListChunk(0), ListChunk(2)}

\* well-formed headers with a finite data chunk: the RIFF size is that of
\* the whole file, the buffer holds the payload in full (and maybe chunks
\* after it) or is cut short inside the payload
FiniteInputs ==
    {[kind |-> "wav", riff |-> Add32(d, U(36 + Len(tr))), fmtlen |-> 16,
      format |-> WAV_FORMAT_PCM, sub |-> Zero32, channels |-> U(f[1]),
      sample_rate |-> f[2], bits_per_sample |-> U(f[3]), mid |-> <<>>,
      dsize |-> d, payload |-> pl, trailing |-> tr] :
        f \in {<<1, U(8000), 8>>, <<2, W(2, 45056), 16>>},
        d \in {U(1), U(2), U(3), W(32766, 65535)},
        pl \in Payloads, tr \in Trailings}

\* headers whose data chunk declares no length: RIFF sizes that are
\* streaming marks (0, ~0), that cover the data header (36, 46 with a LIST
\* chunk before data) or that do not (20, 36 with a LIST chunk)
StreamedInputs ==
    {[kind |-> "wav", riff |-> r[1], fmtlen |-> f[1], format |-> f[2], sub |-> f[3],
      channels |-> U(2), sample_rate |-> U(8000), bits_per_sample |-> U(16),
      mid |-> r[2], dsize |-> Zero32, payload |-> pl, trailing |-> <<>>] :
        r \in {<<Zero32, <<>>>>, <<AllOnes, ListChunk(2)>>, <<U(20), <<>>>>,
               <<U(36), <<>>>>, <<U(46), ListChunk(2)>>, <<U(36), ListChunk(2)>>},
        f \in {<<16, WAV_FORMAT_PCM, Zero32>>, <<18, WAV_FORMAT_PCM, Zero32>>,
               <<40, FormatExtensible, WAV_FORMAT_PCM>>, <<16, U(3), Zero32>>,
               <<16, FormatExtensible, Zero32>>},
        pl \in {<<>>, <<10, 11>>}}

WellBuilt(p) ==
    /\ Len(p.payload) <= 3
    /\ p.dsize # Zero32 /\ Lt32(p.dsize, U(4)) => Len(p.payload) <= Nat32(p.dsize)
    /\ p.trailing # <<>> => U(Len(p.payload)) = p.dsize

\* headers whose data chunk declares an oversize length (0x7FFF0000,
\* 0x80000000, ~0), under RIFF sizes that are streaming marks (0, ~0) or
\* the size of the file so far (36 + 2 for the payload in the buffer)
OversizeInputs ==
    {[kind |-> "wav", riff |-> r, fmtlen |-> f[1], format |-> f[2], sub |-> f[3],
      channels |-> U(2), sample_rate |-> U(8000), bits_per_sample |-> U(16),
      mid |-> <<>>, dsize |-> d, payload |-> <<10, 11>>, trailing |-> <<>>] :
        r \in {Zero32, AllOnes, U(38)},
        f \in {<<16, WAV_FORMAT_PCM, Zero32>>, <<40, FormatExtensible, WAV_FORMAT_PCM>>},
        d \in {StreamedLimit, W(32768, 0), AllOnes}}

HdrInputs == {p \in FiniteInputs \cup StreamedInputs \cup OversizeInputs : WellBuilt(p)}

InitHdr ==
    /\ hdr = NewHeader /\ snd = NoSlice /\ inp = NoInput
    /\ enc = 0 /\ sess = 0
    /\ sink = 0
    /\ last = [op |-> "none", prev |-> "none", stale |-> FALSE]
    /\ dec = 0 /\ lis = 0
    /\ cnv = 0 /\ pcm = 0
    /\ crashed = FALSE
    /\ steps = 0

DoHeaderBegin ==
    /\ steps < MaxScans
    /\ \E p \in HdrInputs :
        /\ hdr' = HeaderBegin(hdr, MkWav(p))
        /\ inp' = p
    /\ snd' = NoSlice
    /\ last' = [op |-> "begin", prev |-> last.op, stale |-> hdr.sound_pos # Zero32]
    /\ steps' = steps + 1
    /\ UNCHANGED <<encVars, sink, crashed, decVars, cnvVars>>

DoSoundData ==
    /\ steps < MaxScans
    /\ LET r == soundData(hdr)
       IN  /\ hdr' = r.h
           /\ snd' = [ok |-> r.ok, pos |-> r.pos, len |-> r.len]
    /\ last' = [op |-> "soundData", prev |-> last.op, stale |-> last.stale]
    /\ steps' = steps + 1
    /\ UNCHANGED <<inp, encVars, sink, crashed, decVars, cnvVars>>

NextHdr == DoHeaderBegin \/ DoSoundData

SpecHdr == InitHdr /\ [][NextHdr]_vars

----------------------------------------------------------------------------
(* Round trip: a descriptor is handed to the encoder, the first write      *)
(* emits the header, and a WAVHeader scans exactly those header bytes.     *)

RTInfos ==
    {[format |-> f, sample_rate |-> sr, bits_per_sample |-> b, channels |-> ch,
      byte_rate |-> Zero32, block_align |-> Zero32,
      is_streamed |-> FALSE, is_valid |-> TRUE, data_length |-> dl, file_size |-> fs] :
        f \in {Zero32, WAV_FORMAT_PCM, U(3), FormatExtensible, W(0, 65535)},
        ch \in {Zero32, U(1), U(2), W(0, 65535)},
        sr \in {Zero32, U(8000), U(44100), W(32767, 65535), W(32768, 0), AllOnes},
        b \in {Zero32, U(8), U(16), W(0, 65535)},
        dl \in {Zero32, U(2), StreamedLimit},
        fs \in {Zero32, U(7), U(8), U(9), U(20), U(35), U(36), U(43), U(44), U(46),
                W(32767, 7), W(32767, 8), W(32767, 36), AllOnes}}

InitRT ==
    /\ enc = [stream_ptr |-> "out", audioInfo |-> defaultConfig, size_limit |-> 0,
              header_written |-> FALSE, is_open |-> FALSE]
    /\ sink = [data |-> <<>>, offered |-> <<>>, room |-> -1, flushes |-> 0]
    /\ sess = 0
    /\ hdr = NewHeader /\ snd = NoSlice /\ inp = NoInput
    /\ last = [op |-> "none"]
    /\ dec = 0 /\ lis = 0
    /\ cnv = 0 /\ pcm = 0
    /\ crashed = FALSE
    /\ steps = 0

\* begin(ai)
DoRTBegin ==
    /\ last.op = "none"
    /\ \E ai \in RTInfos :
        /\ enc' = EncBegin(enc, ai)
        /\ inp' = ai
    /\ last' = [op |-> "begin"]
    /\ steps' = steps + 1
    /\ UNCHANGED <<sink, sess, hdr, snd, crashed, decVars, cnvVars>>

\* the first write of the session, with no payload
DoRTWrite ==
    /\ last.op = "begin"
    /\ \E o \in EncWrite(enc, sink, <<>>) :
        /\ enc' = o.enc
        /\ sink' = o.sink
        /\ crashed' = o.crashed
    /\ last' = [op |-> "write"]
    /\ steps' = steps + 1
    /\ UNCHANGED <<sess, hdrVars, decVars, cnvVars>>

\* WAVHeader::begin over the bytes the encoder emitted
DoRTScan ==
    /\ last.op = "write"
    /\ hdr' = HeaderBegin(hdr, sink.data)
    /\ last' = [op |-> "scan"]
    /\ steps' = steps + 1
    /\ UNCHANGED <<enc, sink, sess, snd, inp, crashed, decVars, cnvVars>>

NextRT == DoRTBegin \/ DoRTWrite \/ DoRTScan

SpecRT == InitRT /\ [][NextRT]_vars

----------------------------------------------------------------------------
(* The decoder driven by a caller *)

\* a header-bearing buffer: fmt chunk of fl bytes with format tag f
\* (subformat sb), data chunk declaring d bytes, then the payload pl
DecHeader(fl, f, sb, d, pl) ==
    [kind |-> "wav", riff |-> IF d = Zero32 THEN Zero32 ELSE Add32(d, U(20 + fl)),
     fmtlen |-> fl, format |-> f, sub |-> sb, channels |-> U(2),
     sample_rate |-> U(8000), bits_per_sample |-> U(16), mid |-> <<>>,
     dsize |-> d, payload |-> pl, trailing |-> <<>>]

\* buffers handed to write: headers with their data chunk (kind "wav",
\* fmt the format code they carry), headers cut off before the data chunk
\* (kind "nodata"), and plain payload (kind "raw")
DecBuffers ==
    {[kind |-> "wav", fmt |-> IF p.format = FormatExtensible THEN p.sub ELSE p.format,
      bytes |-> MkWav(p), payload |-> p.payload] :
        p \in {DecHeader(16, WAV_FORMAT_PCM, Zero32, U(2), <<10, 11>>),
               DecHeader(16, WAV_FORMAT_PCM, Zero32, Zero32, <<10, 11, 12, 13>>),
               DecHeader(16, U(3), Zero32, U(2), <<10, 11>>),
               DecHeader(40, FormatExtensible, WAV_FORMAT_PCM, Zero32, <<10>>),
               DecHeader(40, FormatExtensible, U(3), Zero32, <<10>>)}}
    \cup {[kind |-> "nodata", fmt |-> f,
           bytes |-> SubSeq(MkWav(DecHeader(16, f, Zero32, U(2), <<>>)), 1, 36),
           payload |-> <<>>] : f \in {WAV_FORMAT_PCM}}
    \cup {[kind |-> "raw", fmt |-> Zero32, bytes |-> b, payload |-> b] :
            b \in {<<1>>, <<2, 3, 4, 5>>}}

NoSession ==
    [begun |-> FALSE, processed |-> FALSE, how |-> "none", mark |-> 0, nset |-> 0,
     rets |-> 0, first_ret |-> 0, first_offered |-> 0, first_payload |-> 0,
     later_len |-> 0]

\* the state after construction: WAVDecoder(Print&) or
\* WAVDecoder(Print&, AudioBaseInfoDependent&); active is left unset
InitDec ==
    /\ dec \in [isFirst : {TRUE}, isValid : {TRUE}, active : BOOLEAN, listener : BOOLEAN]
    /\ lis = [nvalidate |-> 0, nset |-> 0, info |-> 0]
    /\ hdr = NewHeader /\ snd = NoSlice /\ inp = NoInput
    /\ sink \in [data : {<<>>}, offered : {<<>>}, room : {-1, 3}, flushes : {0}]
    /\ enc = 0
    /\ sess = NoSession
    /\ last = [op |-> "none"]
    /\ cnv = 0 /\ pcm = 0
    /\ crashed = FALSE
    /\ steps = 0

DoDecBegin ==
    /\ steps < MaxDecCalls
    /\ dec' = DecBegin(dec)
    /\ sess' = [NoSession EXCEPT !.begun = TRUE]
    /\ last' = [op |-> "begin"]
    /\ steps' = steps + 1
    /\ UNCHANGED <<lis, hdrVars, sink, enc, crashed, cnvVars>>

\* how a header-bearing write of the session must end, by its inputs
HeaderVerdict(b, accept) ==
    IF b.fmt # WAV_FORMAT_PCM THEN "nonpcm"
    ELSE IF ~dec.listener THEN "nolistener"
    ELSE IF accept THEN "accepted" ELSE "declined"

DoDecWrite ==
    /\ steps < MaxDecCalls
    /\ \E b \in DecBuffers, accept \in BOOLEAN :
        \E o \in {DecWrite(dec, hdr, sink, lis, b.bytes, accept)} :
        LET offered == Len(o.sink.offered) - Len(sink.offered)
        IN  /\ dec' = o.dec
            /\ hdr' = o.hdr
            /\ sink' = o.sink
            /\ lis' = o.lis
            /\ sess' = IF ~sess.begun THEN sess
                       ELSE IF ~sess.processed
                       THEN IF b.kind = "wav"
                            THEN [sess EXCEPT !.processed = TRUE,
                                              !.how = HeaderVerdict(b, accept),
                                              !.mark = Len(sink.offered),
                                              !.nset = lis.nset,
                                              !.rets = o.ret,
                                              !.first_ret = o.ret,
                                              !.first_offered = offered,
                                              !.first_payload = Len(b.payload)]
                            ELSE sess
                       ELSE [sess EXCEPT !.rets = @ + o.ret,
                                         !.later_len = @ + Len(b.bytes)]
            /\ last' = [op |-> "write", ret |-> o.ret, dec |-> dec, sink |-> sink,
                        buf |-> b.bytes, later |-> sess.begun /\ sess.processed,
                        how |-> sess.how]
    /\ steps' = steps + 1
    /\ UNCHANGED <<snd, inp, enc, crashed, cnvVars>>

NextDec == DoDecBegin \/ DoDecWrite

SpecDec == InitDec /\ [][NextDec]_vars

----------------------------------------------------------------------------
(* Claims about the encoder, checked under SpecEnc *)

\* what was handed to the sink since the last begin, byte by byte
SessionTags == SubSeq(sink.offered, sess.start + 1, Len(sink.offered))

SessionData == SubSeq(sink.data, sess.start + 1, Len(sink.data))

\* payload bytes handed to the sink since the last begin
SessionPayload == Cardinality({i \in 1..Len(SessionTags) : SessionTags[i] = "p"})

\* a session opened by begin with a finite data_length, a sink attached
\* that accepts every byte
BoundedSession ==
    sess.begun /\ sess.bounded /\ enc.stream_ptr = "out" /\ sink.room < 0

\* C1: in a bounded session (finite data_length N, accepting sink) the
\* payload bytes passed to the sink never exceed N, and once the sizes
\* requested add up to N or more, exactly N payload bytes have reached the
\* sink and the session is closed.
C1_BoundedBudget ==
    BoundedSession =>
        /\ SessionPayload <= sess.N
        /\ (sess.requested >= sess.N => SessionPayload = sess.N /\ ~enc.is_open)

C1_Witness ==
    /\ BoundedSession /\ last.op = "write"
    /\ sess.requested > sess.N /\ SessionPayload = sess.N /\ ~enc.is_open

\* C2 (as claimed): a write on an encoder that is not open (after end(), or
\* after the budget was used up) returns 0, passes nothing to the sink,
\* leaves the encoder unchanged, and is a defined outcome: the program goes on.
C2_ClosedWriteReturnsZero ==
    (sess.begun /\ last.op = "write" /\ ~last.enc.is_open) =>
        /\ ~crashed
        /\ last.ret = 0
        /\ sink = last.sink
        /\ enc = last.enc

\* C3: with a sink attached, the bytes handed to the sink since begin are
\* empty while no write was made while open, and otherwise start with the
\* 44 header bytes (RIFF tag, size, WAVE, fmt chunk of 16 bytes, data tag,
\* size), once, followed by payload bytes only.
C3_HeaderOnce ==
    (sess.begun /\ enc.stream_ptr = "out") =>
        IF sess.writes = 0
        THEN SessionTags = <<>> /\ ~enc.header_written
        ELSE /\ enc.header_written
             /\ Len(SessionTags) >= 44
             /\ \A i \in 1..Len(SessionTags) : SessionTags[i] = IF i <= 44 THEN "h" ELSE "p"
             /\ sink.room < 0 =>
                    /\ SubSeq(SessionData, 1, 4) = TagBytes(TagRIFF)
                    /\ SubSeq(SessionData, 9, 12) = TagBytes(TagWAVE)
                    /\ SubSeq(SessionData, 13, 20) = TagBytes(TagFmt) \o <<16, 0, 0, 0>>
                    /\ SubSeq(SessionData, 37, 40) = TagBytes(TagData)

C3_Witness ==
    /\ sess.begun /\ enc.stream_ptr = "out" /\ sink.room < 0
    /\ sess.writes >= 2 /\ Len(SessionTags) > 44 /\ last.op = "write"

----------------------------------------------------------------------------
(* Claims about the scanner, checked under SpecHdr *)

\* every scan of the model ran to its end within MaxPasses passes
ScanCompletes == hdr.pc \in {"idle", "done"}

\* soundData was called right after a scan
Sliced == last.op = "soundData" /\ last.prev = "begin"

\* the header of the last scan is well formed with a finite data chunk:
\* 16-byte PCM fmt chunk, 0 < data_size < 0x7FFF0000, RIFF size consistent
WellFormedFinite ==
    /\ inp.kind = "wav" /\ inp.fmtlen = 16 /\ inp.format = WAV_FORMAT_PCM /\ inp.mid = <<>>
    /\ inp.dsize # Zero32 /\ Lt32(inp.dsize, StreamedLimit)
    /\ inp.riff = Add32(inp.dsize, U(36 + Len(inp.trailing)))

\* sample_rate, channels and bits_per_sample as encoded in the buffer
FieldsAsEncoded ==
    /\ hdr.headerInfo.sample_rate = inp.sample_rate
    /\ hdr.headerInfo.channels = inp.channels
    /\ hdr.headerInfo.bits_per_sample = inp.bits_per_sample

\* number of buffer bytes after the data header
AfterDataHeader == Len(hdr.buffer) - DataStart(inp)

\* C5 (as claimed): for a buffer that starts with a well-formed header with
\* a finite data chunk, followed by payload and maybe further bytes, the
\* scan yields is_valid with the encoded fields, and soundData returns the
\* slice right after the data header of length min(data_size, bytes left).
C5_FinitePayloadSlice ==
    (Sliced /\ WellFormedFinite) =>
        /\ hdr.headerInfo.is_valid /\ FieldsAsEncoded
        /\ snd.ok /\ snd.pos = U(DataStart(inp))
        /\ snd.len = IF Lt32(inp.dsize, U(AfterDataHeader)) THEN inp.dsize
                     ELSE U(AfterDataHeader)

\* what the code does in the case of C5: the slice runs to the end of the buffer
C5_SliceToBufferEnd ==
    (Sliced /\ WellFormedFinite) =>
        /\ hdr.headerInfo.is_valid /\ FieldsAsEncoded
        /\ snd.ok /\ snd.pos = U(DataStart(inp))
        /\ snd.len = U(AfterDataHeader)

\* the header of the last scan carries a complete fmt chunk, declares
\* data_size = 0, and its RIFF size is 0, >= 0x7FFF0000 or reaches past
\* the data header
WellFormedStreamed ==
    /\ inp.kind = "wav" /\ inp.dsize = Zero32
    /\ inp.format = FormatExtensible => inp.fmtlen >= 28
    /\ \/ inp.riff = Zero32
       \/ Ge32(inp.riff, StreamedLimit)
       \/ Ge32(inp.riff, U(DataStart(inp) - 8))

\* C6: for a buffer holding a RIFF/WAVE header whose data chunk declares
\* data_size = 0, the scan sets is_streamed, stops right after the data
\* header, and soundData returns the slice from there to the end of the buffer.
C6_StreamedSlice ==
    /\ (last.op = "begin" /\ WellFormedStreamed) =>
            /\ hdr.pc = "done" /\ hdr.headerInfo.is_streamed
            /\ hdr.data_pos = U(DataStart(inp)) /\ hdr.sound_pos = U(DataStart(inp))
    /\ (Sliced /\ WellFormedStreamed) =>
            /\ hdr.headerInfo.is_streamed
            /\ snd.ok /\ snd.pos = U(DataStart(inp))
            /\ Add32(snd.pos, snd.len) = U(Len(hdr.buffer))

C6_Witness ==
    /\ Sliced /\ WellFormedStreamed /\ snd.ok
    /\ inp.payload # <<>> /\ inp.mid # <<>> /\ snd.len = U(Len(inp.payload))

\* the header of the last scan carries a complete fmt chunk and a data
\* chunk that declares a length of 0x7FFF0000 or more
OversizeData ==
    /\ inp.kind = "wav" /\ Ge32(inp.dsize, StreamedLimit)
    /\ inp.format = FormatExtensible => inp.fmtlen >= 28

\* the scan took the data chunk for a stream, and soundData returns the
\* buffer from the end of the data header on
StreamedToBufferEnd ==
    /\ last.op = "begin" => hdr.headerInfo.is_valid /\ hdr.headerInfo.is_streamed
    /\ Sliced =>
            /\ hdr.headerInfo.is_streamed
            /\ snd.ok /\ snd.pos = U(DataStart(inp))
            /\ Add32(snd.pos, snd.len) = U(Len(hdr.buffer))

\* C18 (as claimed): for a buffer holding a RIFF/WAVE header with a valid
\* fmt chunk and a data chunk of declared size >= 0x7FFF0000, whatever the
\* RIFF size, the scan sets is_streamed and soundData returns the rest of
\* the buffer after the data header.
C18_OversizeDataStreamed == OversizeData => StreamedToBufferEnd

\* what the code does: the data chunk is reached only if the RIFF size is
\* itself a streaming mark and the declared data size is not above what is
\* then left of ~0, that is ~0 - 4 - 8 for each chunk header before the
\* payload and the length of each chunk before data
OversizeDataUnderStreamedRiff ==
    (/\ OversizeData
     /\ inp.riff = Zero32 \/ Ge32(inp.riff, StreamedLimit)
     /\ Ge32(Sub32(AllOnes, U(DataStart(inp) - 8)), inp.dsize))
        => StreamedToBufferEnd

----------------------------------------------------------------------------
(* Round trip, checked under SpecRT *)

RoundTripEqual ==
    /\ hdr.headerInfo.sample_rate = inp.sample_rate
    /\ hdr.headerInfo.channels = inp.channels
    /\ hdr.headerInfo.bits_per_sample = inp.bits_per_sample
    /\ hdr.headerInfo.format = inp.format

\* C4 (as claimed): for every descriptor (any data_length, any file_size)
\* scanning the 44 header bytes the encoder emits gives back the same
\* sample_rate, channels, bits_per_sample and format code.
C4_RoundTripAnyFileSize == last.op = "scan" => RoundTripEqual

\* the RIFF size the encoder writes, file_size - 8 mod 2^32, is 0 or at
\* least 28: the RIFF chunk reaches to the end of the fmt chunk
RiffCoversFmt ==
    LET riff == Sub32(inp.file_size, U(8))
    IN  riff = Zero32 \/ Ge32(riff, U(28))

\* C4 (amended): the round trip holds for every descriptor whose file_size
\* makes the RIFF size written (file_size - 8 mod 2^32) 0 or at least 28.
C4_RoundTrip == (last.op = "scan" /\ RiffCoversFmt) => RoundTripEqual

C4_Witness ==
    /\ last.op = "scan" /\ RiffCoversFmt /\ Len(hdr.buffer) = 44
    /\ inp.format = U(3) /\ inp.sample_rate = AllOnes /\ inp.file_size = U(36)
    /\ hdr.headerInfo.is_valid

----------------------------------------------------------------------------
(* Claims about the decoder, checked under SpecDec *)

\* bytes handed to the sink since the header-bearing write began
OfferedSinceHeader == Len(sink.offered) - sess.mark

\* agreement of the history with the decoder's flag
HeaderFlagAgrees == sess.begun => (sess.processed <=> ~dec.isFirst)

\* C7: if the header processed by a write carries a format code other than
\* PCM, that write and every later write of the session forward nothing
\* and return 0, with or without a listener, whatever it would answer.
C7_NonPcmRejected ==
    (sess.begun /\ sess.how = "nonpcm") =>
        /\ OfferedSinceHeader = 0
        /\ sess.rets = 0

C7_Witness ==
    /\ sess.begun /\ sess.how = "nonpcm" /\ dec.listener
    /\ last.op = "write" /\ last.later /\ Len(last.buf) > 0

\* C8: if the listener's validate rejects the format on the header-bearing
\* write, setAudioInfo is not called, and that write and every later write
\* of the session forward nothing.
C8_ListenerDeclined ==
    (sess.begun /\ sess.how = "declined") =>
        /\ lis.nset = sess.nset
        /\ OfferedSinceHeader = 0
        /\ sess.rets = 0

C8_Witness ==
    /\ sess.begun /\ sess.how = "declined" /\ lis.nvalidate > 0
    /\ last.op = "write" /\ last.later /\ Len(last.buf) > 0

\* C9: with no listener attached, the write that bears a valid PCM header
\* returns 0 and hands nothing to the sink, and the payload bytes of that
\* buffer never reach the sink: all the sink is handed afterwards are the
\* buffers of the later writes.
C9_NoListenerDropsFirst ==
    (sess.begun /\ sess.how = "nolistener") =>
        /\ sess.first_ret = 0
        /\ sess.first_offered = 0
        /\ OfferedSinceHeader = sess.later_len

C9_Witness ==
    /\ sess.begun /\ sess.how = "nolistener" /\ sess.first_payload > 0
    /\ last.op = "write" /\ last.later /\ Len(last.buf) > 0

\* a write made after the header was processed did, or did not, forward
\* its whole buffer and return the sink's count; the flags are unchanged
LaterWriteForwarded ==
    /\ sink = SinkWrite(last.sink, last.buf, "p").sink
    /\ last.ret = SinkWrite(last.sink, last.buf, "p").n

LaterWriteDropped == sink = last.sink /\ last.ret = 0

FlagsKept == ~dec.isFirst /\ dec.isValid = last.dec.isValid /\ ~last.dec.isFirst

\* C10 (as claimed): after the header was processed, a write forwards its
\* whole buffer and returns the sink's count if the session was marked
\* valid (PCM format and accepted by the listener), and forwards nothing
\* and returns 0 otherwise; the flags do not change.
C10_ForwardIffAccepted ==
    (last.op = "write" /\ last.later) =>
        /\ IF last.how = "accepted" THEN LaterWriteForwarded ELSE LaterWriteDropped
        /\ FlagsKept

\* C10 (amended): the session is marked valid by a PCM header that the
\* listener accepted or, with no listener attached, by a PCM header alone.
C10_ForwardIffValid ==
    (last.op = "write" /\ last.later) =>
        /\ IF last.how \in {"accepted", "nolistener"}
           THEN LaterWriteForwarded /\ last.dec.isValid
           ELSE LaterWriteDropped /\ ~last.dec.isValid
        /\ FlagsKept

C10_Witness ==
    /\ last.op = "write" /\ last.later /\ last.how = "accepted"
    /\ Len(last.buf) > 1 /\ last.ret > 0 /\ last.ret < Len(last.buf)

----------------------------------------------------------------------------
(* Sample converters (Converter.h), instantiated for T = int16_t.  The    *)
(* buffer src of size frames is a sequence of frames <<left, right>>.      *)
(* A float is kept as an exact fraction; the samples, offsets              *)
(* and factors of the model stay far inside the range where float          *)
(* arithmetic is exact.                                                    *)

\* the range of T
MinT == -(Limb \div 2)

MaxT == (Limb \div 2) - 1

\* an int stored into a T: the value is cut to 16 bits
Narrow(n) == ((n - MinT) % Limb) + MinT

\* n / d with the fraction dropped, as a conversion from float to an
\* integer type drops it
Truncate(n, d) == IF n >= 0 THEN n \div d ELSE -((-n) \div d)

\* a float n / d stored into a T.  A value outside the range of T is
\* undefined behaviour; cast is what the build makes of it: the low 16
\* bits of the value, or the nearest end of the range
FloatToT(n, d, cast) ==
    LET q == Truncate(n, d)
    IN  IF q >= MinT /\ q <= MaxT THEN q
        ELSE IF cast = "wrap" THEN Narrow(q)
        ELSE IF q < MinT THEN MinT ELSE MaxT

\* one pass of the loop of ConverterScaler::convert, lines 68-79
ScalerFrame(c, f) ==
    LET l0 == FloatToT((f[1] + c.offset) * c.factor.num, c.factor.den, c.cast)
        l1 == IF l0 > c.maxValue THEN c.maxValue
              ELSE IF l0 < -c.maxValue THEN Narrow(-c.maxValue)
              ELSE l0
        r0 == FloatToT(f[2] * c.factor.den + c.offset * c.factor.num, c.factor.den, c.cast)
        r1 == IF r0 > c.maxValue THEN c.maxValue
              ELSE IF l1 < -c.maxValue THEN Narrow(-c.maxValue)
              ELSE r0
    IN  <<l1, r1>>

\* ConverterScaler::convert
ScalerConvert(c, src) == [j \in 1..Len(src) |-> ScalerFrame(c, src[j])]

----------------------------------------------------------------------------
(* ConverterScaler driven by a caller *)

Fraction(n, d) == [num |-> n, den |-> d]

\* 0.0, 0.5, 1.0, 2.0
Factors == {Fraction(0, 1), Fraction(1, 2), Fraction(1, 1), Fraction(2, 1)}

ScalerSamples == {MinT, -5, 0, 2, 5, MaxT}

\* buffers of no, one and two frames
ScalerBuffers ==
    {<<>>}
    \cup {<<<<l, r>>>> : l \in ScalerSamples, r \in ScalerSamples}
    \cup {<<<<l1, r1>>, <<l2, r2>>>> : l1 \in {-5, 5}, r1 \in {-5, 5},
                                       l2 \in {-5, 5}, r2 \in {-5, 5}}

\* ConverterScaler(factor, offset, maxValue)
InitScaler ==
    /\ cnv \in [factor : Factors, offset : {-2, 0, 3}, maxValue : {-1, 0, 3, MaxT},
                cast : {"wrap", "saturate"}]
    /\ pcm = <<>>
    /\ last = [op |-> "none", src |-> <<>>]
    /\ enc = 0 /\ sink = 0 /\ sess = 0
    /\ hdr = 0 /\ snd = 0 /\ inp = 0
    /\ dec = 0 /\ lis = 0
    /\ crashed = FALSE
    /\ steps = 0

DoScalerConvert ==
    /\ \E src \in ScalerBuffers :
        /\ pcm' = ScalerConvert(cnv, src)
        /\ last' = [op |-> "convert", src |-> src]
    /\ UNCHANGED <<cnv, encVars, sink, hdrVars, decVars, crashed, steps>>

NextScaler == DoScalerConvert

SpecScaler == InitScaler /\ [][NextScaler]_vars

----------------------------------------------------------------------------
(* Claims about ConverterScaler, checked under SpecScaler *)

InClipRange(x) == x >= -cnv.maxValue /\ x <= cnv.maxValue

\* the left channel is clipped as the claims say
ScalerLeftClipped ==
    (last.op = "convert" /\ cnv.maxValue >= 0) =>
        \A j \in 1..Len(pcm) : InClipRange(pcm[j][1])

\* C11: after ConverterScaler.convert, for every buffer and every factor,
\* offset and maxValue >= 0, every sample of both the left and the right
\* channel lies in [-maxValue, +maxValue].
C11_BothChannelsClipped ==
    (last.op = "convert" /\ cnv.maxValue >= 0) =>
        \A j \in 1..Len(pcm) : InClipRange(pcm[j][1]) /\ InClipRange(pcm[j][2])

\* C12: with factor 0, after convert every sample of both channels of
\* every frame is 0.
C12_FactorZeroMutes ==
    (last.op = "convert" /\ cnv.factor.num = 0) =>
        \A j \in 1..Len(pcm) : pcm[j][1] = 0 /\ pcm[j][2] = 0

\* what factor 0 does: with maxValue >= 0 the left channel is muted, and
\* the right channel keeps its sample, clipped from above only
ScalerFactorZero ==
    (last.op = "convert" /\ cnv.factor.num = 0 /\ cnv.maxValue >= 0) =>
        \A j \in 1..Len(pcm) :
            /\ pcm[j][1] = 0
            /\ pcm[j][2] = Min(last.src[j][2], cnv.maxValue)

----------------------------------------------------------------------------
(* ConverterAutoCenter.  The float members left and right are fractions    *)
(* [num, den]; den = 0 stands for what a division by zero leaves: plus     *)
(* infinity (num > 0), minus infinity (num < 0) or not-a-number (num = 0). *)

\* f + n, n an integer sample
FloatAdd(f, n) == IF f.den = 0 THEN f ELSE Fraction(f.num + n * f.den, f.den)

Sign(n) == IF n > 0 THEN 1 ELSE IF n < 0 THEN -1 ELSE 0

\* f / size, size a size_t
FloatDiv(f, size) ==
    IF f.den = 0 THEN f
    ELSE IF size = 0 THEN Fraction(Sign(f.num), 0)
    ELSE Fraction(f.num, f.den * size)

\* f > 0
FloatPositive(f) == f.num > 0

\* a float stored into a T; an infinity is outside the range of T
FloatAsT(f, cast) ==
    IF f.den = 0
    THEN IF cast = "wrap" THEN 0 ELSE IF f.num < 0 THEN MinT ELSE MaxT
    ELSE FloatToT(f.num, f.den, cast)

\* the sum of channel k of src added to f, lines 117-120
RECURSIVE Accumulate(_, _, _)
Accumulate(f, src, k) ==
    IF src = <<>> THEN f
    ELSE Accumulate(FloatAdd(f, Head(src)[k]), Tail(src), k)

\* setup that computes the means again on every call
CenterSetupAlways(c, src) ==
    LET l == FloatDiv(Accumulate(c.left, src, 1), Len(src))
        r == FloatDiv(Accumulate(c.right, src, 2), Len(src))
        c1 == [c EXCEPT !.left = l, !.right = r]
    IN  IF FloatPositive(l)
        THEN [c1 EXCEPT !.offset = FloatAsT(l, c.cast), !.is_setup = TRUE]
        ELSE IF FloatPositive(r)
        THEN [c1 EXCEPT !.offset = FloatAsT(r, c.cast), !.is_setup = TRUE]
        ELSE c1

\* ConverterAutoCenter::setup
CenterSetup(c, src) ==
    IF ~c.is_setup
    THEN LET l == FloatDiv(Accumulate(c.left, src, 1), Len(src))
             r == FloatDiv(Accumulate(c.right, src, 2), Len(src))
             c1 == [c EXCEPT !.left = l, !.right = r]
         IN  IF FloatPositive(l)
             THEN [c1 EXCEPT !.offset = FloatAsT(l, c.cast), !.is_setup = TRUE]
             ELSE IF FloatPositive(r)
             THEN [c1 EXCEPT !.offset = FloatAsT(r, c.cast), !.is_setup = TRUE]
             ELSE c1
    ELSE c

\* the loop of ConverterAutoCenter::convert, lines 102-105
CenterShift(c, src) ==
    [j \in 1..Len(src) |-> <<Narrow(src[j][1] - c.offset), Narrow(src[j][2] - c.offset)>>]

\* ConverterAutoCenter::convert: the converter and the buffer it leaves
CenterConvert(c, src) ==
    LET c1 == CenterSetup(c, src)
    IN  [cnv |-> c1, pcm |-> IF c1.is_setup THEN CenterShift(c1, src) ELSE src]

----------------------------------------------------------------------------
(* ConverterAutoCenter driven by a caller *)

CenterBuffers ==
    {<<>>}
    \cup {<<<<l, r>>>> : l \in {-4, 0, 3}, r \in {-4, 0, 3}}
    \cup {<<<<3, 0>>, <<6, 0>>>>, <<<<-4, 3>>, <<-4, 6>>>>, <<<<0, 0>>, <<0, 0>>>>}

\* ConverterAutoCenter(): is_setup = false; offset, left and right are
\* left unset and hold whatever the memory held
InitCenter ==
    /\ cnv \in [offset : {0, 9}, left : {Fraction(0, 1), Fraction(7, 1)},
                right : {Fraction(0, 1), Fraction(-7, 1)}, is_setup : {FALSE},
                cast : {"wrap", "saturate"}]
    /\ pcm = <<>>
    /\ sess = [calibrated |-> FALSE, offset |-> 0]
    /\ last = [op |-> "none", src |-> <<>>, later |-> FALSE]
    /\ enc = 0 /\ sink = 0
    /\ hdr = 0 /\ snd = 0 /\ inp = 0
    /\ dec = 0 /\ lis = 0
    /\ crashed = FALSE
    /\ steps = 0

DoCenterConvert ==
    /\ steps < MaxConverts
    /\ \E src \in CenterBuffers :
        \E o \in {CenterConvert(cnv, src)} :
            /\ cnv' = o.cnv
            /\ pcm' = o.pcm
            /\ sess' = IF ~sess.calibrated /\ o.cnv.is_setup
                       THEN [calibrated |-> TRUE, offset |-> o.cnv.offset]
                       ELSE sess
            /\ last' = [op |-> "convert", src |-> src, later |-> sess.calibrated]
    /\ steps' = steps + 1
    /\ UNCHANGED <<enc, sink, hdrVars, decVars, crashed>>

NextCenter == DoCenterConvert

SpecCenter == InitCenter /\ [][NextCenter]_vars

----------------------------------------------------------------------------
(* Claims about ConverterAutoCenter, checked under SpecCenter *)

\* C13: after the first convert call in which a channel mean is positive
\* and an offset is adopted, no later convert call changes the offset,
\* whatever buffers are passed, and every later call subtracts that same
\* offset from each sample of both channels.
C13_CalibratesOnce ==
    sess.calibrated =>
        /\ cnv.is_setup
        /\ cnv.offset = sess.offset
        /\ last.later =>
              /\ Len(pcm) = Len(last.src)
              /\ \A j \in 1..Len(pcm) :
                    /\ pcm[j][1] = Narrow(last.src[j][1] - sess.offset)
                    /\ pcm[j][2] = Narrow(last.src[j][2] - sess.offset)

\* a later call on a buffer whose own left mean is positive and is not the
\* adopted offset
C13_Witness ==
    /\ sess.calibrated /\ last.later
    /\ Len(last.src) = 1 /\ last.src[1][1] > 0 /\ last.src[1][1] # sess.offset
    /\ sess.offset > 0

----------------------------------------------------------------------------
(* ConverterFillLeftAndRight *)

\* the loops of setup, lines 187-198: some sample of channel k is not 0
HasData(src, k) == \E j \in 1..Len(src) : src[j][k] # 0

\* setup that looks at every buffer
FillSetupAlways(c, src) ==
    LET le == c.left_empty /\ ~HasData(src, 1)
        re == c.right_empty /\ ~HasData(src, 2)
    IN  [is_setup |-> c.is_setup \/ ~re \/ ~le, left_empty |-> le, right_empty |-> re]

\* ConverterFillLeftAndRight::setup
FillSetup(c, src) ==
    IF ~c.is_setup
    THEN LET le == c.left_empty /\ ~HasData(src, 1)
             re == c.right_empty /\ ~HasData(src, 2)
         IN  [is_setup |-> c.is_setup \/ ~re \/ ~le, left_empty |-> le, right_empty |-> re]
    ELSE c

\* ConverterFillLeftAndRight::convert: the converter and the buffer it leaves
FillConvert(c, src) ==
    LET c1 == FillSetup(c, src)
    IN  [cnv |-> c1,
         pcm |-> IF c1.left_empty /\ ~c1.right_empty
                 THEN [j \in 1..Len(src) |-> <<src[j][2], src[j][2]>>]
                 ELSE IF ~c1.left_empty /\ c1.right_empty
                 THEN [j \in 1..Len(src) |-> <<src[j][1], src[j][1]>>]
                 ELSE src]

----------------------------------------------------------------------------
(* ConverterFillLeftAndRight driven by a caller *)

FillSamples == {-3, 0, 2}

FillBuffers ==
    {<<>>}
    \cup {<<<<l, r>>>> : l \in FillSamples, r \in FillSamples}
    \cup {<<<<l1, r1>>, <<l2, r2>>>> : l1 \in FillSamples, r1 \in FillSamples,
                                       l2 \in FillSamples, r2 \in FillSamples}

\* what the first buffer of a converter holds
FirstBuffer(src) ==
    IF \A j \in 1..Len(src) : src[j][1] = 0
    THEN IF \A j \in 1..Len(src) : src[j][2] = 0 THEN "silent" ELSE "left silent"
    ELSE IF \A j \in 1..Len(src) : src[j][2] = 0 THEN "right silent" ELSE "both data"

\* ConverterFillLeftAndRight()
InitFill ==
    /\ cnv = [is_setup |-> FALSE, left_empty |-> TRUE, right_empty |-> TRUE]
    /\ pcm = <<>>
    /\ sess = [first |-> "none"]
    /\ last = [op |-> "none", src |-> <<>>]
    /\ enc = 0 /\ sink = 0
    /\ hdr = 0 /\ snd = 0 /\ inp = 0
    /\ dec = 0 /\ lis = 0
    /\ crashed = FALSE
    /\ steps = 0

DoFillConvert ==
    /\ steps < MaxConverts
    /\ \E src \in FillBuffers :
        \E o \in {FillConvert(cnv, src)} :
            /\ cnv' = o.cnv
            /\ pcm' = o.pcm
            /\ sess' = IF sess.first = "none" THEN [first |-> FirstBuffer(src)] ELSE sess
            /\ last' = [op |-> "convert", src |-> src]
    /\ steps' = steps + 1
    /\ UNCHANGED <<enc, sink, hdrVars, decVars, crashed>>

NextFill == DoFillConvert

SpecFill == InitFill /\ [][NextFill]_vars

----------------------------------------------------------------------------
(* Claims about ConverterFillLeftAndRight, checked under SpecFill *)

\* the last call left channel k as it was and copied it into the other
CopiedFrom(k) ==
    /\ Len(pcm) = Len(last.src)
    /\ \A j \in 1..Len(pcm) : pcm[j][1] = last.src[j][k] /\ pcm[j][2] = last.src[j][k]

\* C14: when the first buffer passed to a fresh converter has an all-zero
\* left channel and a right channel with a non-zero sample, then after that
\* call and after every later call on any buffer each frame's left sample
\* equals its right sample and the right channel is unchanged
\* (symmetrically when only the right channel is silent); when both
\* channels hold data in that first buffer, no call ever modifies a buffer.
C14_FillDecidedByFirst ==
    last.op = "convert" =>
        /\ sess.first = "left silent" => CopiedFrom(2)
        /\ sess.first = "right silent" => CopiedFrom(1)
        /\ sess.first = "both data" => pcm = last.src

\* a later call whose buffer has data on the side that was silent at first
C14_Witness ==
    /\ sess.first = "left silent" /\ steps >= 2
    /\ Len(last.src) = 2
    /\ last.src[1][1] # 0 /\ last.src[1][1] # last.src[1][2] /\ last.src[2][2] = 0

----------------------------------------------------------------------------
(* ConverterSwitchLeftAndRight *)

\* one pass of the loop, lines 149-150: src[j][1] = src[j][0], then
\* src[j][0] = src[j][1]
SwitchFrame(f) ==
    LET f1 == <<f[1], f[1]>>
    IN  <<f1[2], f1[2]>>

\* ConverterSwitchLeftAndRight::convert
SwitchConvert(src) == [j \in 1..Len(src) |-> SwitchFrame(src[j])]

----------------------------------------------------------------------------
(* ConverterSwitchLeftAndRight driven by a caller, who converts the same   *)
(* buffer again and again                                                  *)

SwitchSamples == {-1, 0, 1, 2}

SwitchBuffers ==
    {<<>>}
    \cup {<<<<l, r>>>> : l \in SwitchSamples, r \in SwitchSamples}
    \cup {<<<<l1, r1>>, <<l2, r2>>>> : l1 \in SwitchSamples, r1 \in SwitchSamples,
                                       l2 \in SwitchSamples, r2 \in SwitchSamples}

\* ConverterSwitchLeftAndRight(): the class has no members
InitSwitch ==
    /\ cnv = [calls |-> 0]
    /\ pcm \in SwitchBuffers
    /\ sess = [orig |-> pcm]
    /\ last = [op |-> "none", src |-> <<>>]
    /\ enc = 0 /\ sink = 0
    /\ hdr = 0 /\ snd = 0 /\ inp = 0
    /\ dec = 0 /\ lis = 0
    /\ crashed = FALSE
    /\ steps = 0

DoSwitchConvert ==
    /\ steps < MaxConverts
    /\ pcm' = SwitchConvert(pcm)
    /\ cnv' = [calls |-> cnv.calls + 1]
    /\ last' = [op |-> "convert", src |-> pcm]
    /\ steps' = steps + 1
    /\ UNCHANGED <<encVars, sink, hdrVars, decVars, crashed>>

NextSwitch == DoSwitchConvert

SpecSwitch == InitSwitch /\ [][NextSwitch]_vars

----------------------------------------------------------------------------
(* Claims about ConverterSwitchLeftAndRight, checked under SpecSwitch *)

\* C15: convert exchanges the channels of every frame: afterwards each
\* frame's left sample is the original right sample and its right sample
\* is the original left sample, so applying convert twice restores the
\* original buffer.
C15_ChannelsExchanged ==
    last.op = "convert" =>
        /\ Len(pcm) = Len(last.src)
        /\ \A j \in 1..Len(pcm) : pcm[j] = <<last.src[j][2], last.src[j][1]>>
        /\ cnv.calls = 2 => pcm = sess.orig

\* what convert does: both samples of a frame become its left sample
SwitchCopiesLeft ==
    last.op = "convert" =>
        /\ Len(pcm) = Len(last.src)
        /\ \A j \in 1..Len(pcm) : pcm[j] = <<last.src[j][1], last.src[j][1]>>

----------------------------------------------------------------------------
(* Claims about the modes of the encoder, checked under SpecEnc *)

\* the data_length handed to begin is 0 or >= 0x7FFF0000
DeclaredUnbounded == sess.declared = Zero32 \/ Ge32(sess.declared, StreamedLimit)

\* header bytes the last write had to hand to the sink, and how many of
\* them the sink had room for
HeaderDue == IF last.enc.header_written THEN 0 ELSE 44

HeaderTaken == IF last.sink.room < 0 THEN HeaderDue ELSE Min(HeaderDue, last.sink.room)

\* streaming mode: the flag is set, and a write made while open hands its
\* whole buffer to the sink (after the 44 header bytes if it is the first),
\* returns the sink's count and leaves the encoder open
StreamingMode ==
    /\ enc.audioInfo.is_streamed
    /\ (last.op = "write" /\ last.enc.is_open) =>
          /\ Len(sink.offered) - Len(last.sink.offered) = HeaderDue + last.size
          /\ Len(sink.data) - Len(last.sink.data) = HeaderTaken + last.ret
          /\ sink.room < 0 => last.ret = last.size
          /\ enc.is_open

\* budget mode: the budget set by begin is the declared data_length, and
\* what is left of it is the budget less the payload the sink took
BudgetMode ==
    /\ ~enc.audioInfo.is_streamed
    /\ last.op = "begin" => enc.size_limit = Nat32(sess.declared)
    /\ sink.room < 0 =>
          /\ enc.size_limit = Nat32(sess.declared) - SessionPayload
          /\ SessionPayload <= Nat32(sess.declared)
          /\ sess.requested >= Nat32(sess.declared) => ~enc.is_open

\* C16 (as claimed): begin switches to streaming mode exactly when the
\* declared data_length is 0 or >= 0x7FFF0000; for every other declared
\* data_length it sets a byte budget equal to data_length and enforces it.
C16_StreamingByLength ==
    (sess.begun /\ enc.stream_ptr = "out") =>
        IF DeclaredUnbounded THEN StreamingMode ELSE BudgetMode

\* C16 (amended): begin switches to streaming mode exactly when the
\* descriptor already has is_streamed set or its data_length is 0 or
\* >= 0x7FFF0000; otherwise it sets the budget and enforces it.
C16_StreamingByFlagOrLength ==
    (sess.begun /\ enc.stream_ptr = "out") =>
        IF sess.asked \/ DeclaredUnbounded THEN StreamingMode ELSE BudgetMode

\* a streaming session opened with the flag set and a finite data_length,
\* in which more than data_length bytes were written and it is still open
C16_Witness ==
    /\ sess.begun /\ enc.stream_ptr = "out" /\ sink.room < 0
    /\ sess.asked /\ sess.declared = U(2)
    /\ last.op = "write" /\ last.size = 3 /\ last.ret = 3
    /\ sess.requested > 3 /\ enc.is_open

----------------------------------------------------------------------------
(* The scanner pass by pass: begin over buffers of every kind, the caller  *)
(* waiting while the loops of begin run.  Each step is one stretch of      *)
(* begin between two seeks or loop heads.                                  *)

\* headers with a complete or extensible fmt chunk and a data chunk that is
\* finite, without length, or oversize
ScanHeaders ==
    {MkWav([kind |-> "wav", riff |-> r, fmtlen |-> f[1], format |-> f[2], sub |-> f[3],
            channels |-> U(2), sample_rate |-> U(8000), bits_per_sample |-> U(16),
            mid |-> <<>>, dsize |-> d, payload |-> <<10, 11>>, trailing |-> <<>>]) :
        r \in {Zero32, U(38)},
        f \in {<<16, WAV_FORMAT_PCM, Zero32>>, <<40, FormatExtensible, WAV_FORMAT_PCM>>},
        d \in {Zero32, U(2), AllOnes}}

\* every buffer that holds the first n bytes of b, n = 0 .. Len(b)
Prefixes(b) == {SubSeq(b, 1, n) : n \in 0..Len(b)}

TagJUNK == TAG(74, 85, 78, 75)

TagLIST == TAG(76, 73, 83, 84)

\* a plain 46-byte file: PCM, data chunk of 2 bytes
PlainWav ==
    MkWav([kind |-> "wav", riff |-> U(38), fmtlen |-> 16, format |-> WAV_FORMAT_PCM,
           sub |-> Zero32, channels |-> U(2), sample_rate |-> U(8000),
           bits_per_sample |-> U(16), mid |-> <<>>, dsize |-> U(2),
           payload |-> <<10, 11>>, trailing |-> <<>>])

\* the chunks of PlainWav after RIFF size WAVE
PlainChunks == SubSeq(PlainWav, 13, Len(PlainWav))

\* buffers with bytes in front of the header, with chunks that declare no
\* length or an oversize one, and with a RIFF chunk that is not WAVE
OddBuffers ==
    {<<1, 2, 3>> \o PlainWav,
     <<0, 0, 0, 0, 0, 0, 0, 0, 0>> \o PlainWav,
     TagBytes(TagJUNK) \o LE32(Zero32) \o PlainWav,
     TagBytes(TagJUNK) \o LE32(U(3)) \o <<1, 2, 3>> \o PlainWav,
     TagBytes(TagJUNK) \o LE32(AllOnes) \o PlainWav,
     TagBytes(TagJUNK) \o LE32(W(32768, 0)) \o PlainWav,
     TagBytes(TagRIFF) \o LE32(Zero32) \o TagBytes(TAG(65, 86, 73, 32)) \o PlainWav,
     TagBytes(TagRIFF) \o LE32(U(4)) \o TagBytes(TagWAVE) \o PlainWav,
     TagBytes(TagRIFF) \o LE32(U(2)) \o PlainWav,
     TagBytes(TagRIFF) \o LE32(Zero32) \o TagBytes(TagWAVE)
        \o TagBytes(TagLIST) \o LE32(AllOnes) \o PlainChunks,
     TagBytes(TagRIFF) \o LE32(Zero32) \o TagBytes(TagWAVE)
        \o TagBytes(TagLIST) \o LE32(W(32768, 0)) \o PlainChunks,
     TagBytes(TagRIFF) \o LE32(Zero32) \o TagBytes(TagWAVE)
        \o TagBytes(TagLIST) \o LE32(W(32768, 0))
        \o TagBytes(TagLIST) \o LE32(W(32768, 0)) \o PlainChunks,
     TagBytes(TagRIFF) \o LE32(U(46)) \o TagBytes(TagWAVE)
        \o TagBytes(TagLIST) \o LE32(Zero32) \o PlainChunks,
     TagBytes(TagRIFF) \o LE32(U(38)) \o TagBytes(TagWAVE)
        \o TagBytes(TagLIST) \o LE32(U(200)) \o PlainChunks,
     TagBytes(TagRIFF) \o LE32(U(38)) \o TagBytes(TagWAVE)
        \o TagBytes(TagFmt) \o LE32(U(8)) \o PlainChunks,
     PlainWav \o PlainWav}

ScanBuffers == (UNION {Prefixes(b) : b \in ScanHeaders}) \cup OddBuffers

\* the caller enters begin with a buffer
DoScanEnter ==
    /\ ~Scanning(hdr)
    /\ steps < MaxScans
    /\ \E buf \in ScanBuffers : hdr' = HeaderEnter(hdr, buf)
    /\ last' = [op |-> "enter", prev |-> last.op, seen |-> {}]
    /\ steps' = steps + 1
    /\ UNCHANGED <<snd, inp, encVars, sink, crashed, decVars, cnvVars>>

\* begin runs on to its next seek, loop head or return.  The states the
\* scan has passed through are kept; a scan that has come back to one of
\* them repeats itself from there on and is followed no further.
DoScanPass ==
    /\ Scanning(hdr)
    /\ hdr \notin last.seen
    /\ hdr' = ScanStep(hdr)
    /\ last' = [op |-> hdr.pc, prev |-> last.op, seen |-> last.seen \cup {hdr}]
    /\ UNCHANGED <<snd, inp, encVars, sink, crashed, decVars, cnvVars, steps>>

NextScan == DoScanEnter \/ DoScanPass

SpecScan == InitHdr /\ [][NextScan]_vars

----------------------------------------------------------------------------
(* Claims about the scanner, checked under SpecScan *)

\* the 16-bit and 32-bit little-endian words stored q bytes into the buffer
Word16At(q) == W(0, hdr.buffer[q + 2] * 256 + hdr.buffer[q + 1])

Word32At(q) ==
    W(hdr.buffer[q + 4] * 256 + hdr.buffer[q + 3],
      hdr.buffer[q + 2] * 256 + hdr.buffer[q + 1])

\* the buffer holds, q bytes in, a `fmt ` chunk whose fields lie inside the
\* buffer, and headerInfo carries exactly those fields
FmtStoredAt(q) ==
    /\ q + 24 <= Len(hdr.buffer)
    /\ SubSeq(hdr.buffer, q + 1, q + 4) = TagBytes(TagFmt)
    /\ Ge32(Word32At(q + 4), U(16))
    /\ IF Word16At(q + 8) = FormatExtensible
       THEN /\ Ge32(Word32At(q + 4), U(28))
            /\ q + 36 <= Len(hdr.buffer)
            /\ hdr.headerInfo.format = Word32At(q + 32)
       ELSE hdr.headerInfo.format = Word16At(q + 8)
    /\ hdr.headerInfo.channels = Word16At(q + 10)
    /\ hdr.headerInfo.sample_rate = Word32At(q + 12)
    /\ hdr.headerInfo.byte_rate = Word32At(q + 16)
    /\ hdr.headerInfo.block_align = Word16At(q + 20)
    /\ hdr.headerInfo.bits_per_sample = Word16At(q + 22)

\* C17 (as claimed): after any scan, is_valid is set only if a `fmt ` chunk
\* of declared length >= 16 (>= 28 when extensible) was read in full from
\* the buffer, the fields of headerInfo being the bytes stored there; a fmt
\* chunk cut off by the end of the buffer never gives is_valid.
C17_ValidOnlyAfterFullFmt ==
    (hdr.pc = "done" /\ hdr.headerInfo.is_valid) =>
        \E q \in 0..Len(hdr.buffer) : FmtStoredAt(q)

\* what the code guarantees: is_valid is set only if a `fmt ` tag lies in
\* the buffer with at least two bytes after it
FmtTagSeen ==
    (hdr.pc = "done" /\ hdr.headerInfo.is_valid) =>
        \E q \in 0..Len(hdr.buffer) :
            /\ q + 6 <= Len(hdr.buffer)
            /\ SubSeq(hdr.buffer, q + 1, q + 4) = TagBytes(TagFmt)

\* the scan is in a state it has been in before: begin, a function of that
\* state alone, runs through the same states again and never returns
ScanRepeats == last.op # "none" /\ hdr \in last.seen

\* C19 (as claimed): begin terminates for every buffer content and length
\* (lengths 0 and 1, bytes in front of the header, chunks of declared
\* length 0 or >= 0x7FFF0000 among them): no scan comes back to a state it
\* has been in.
C19_ScanTerminates == ~ScanRepeats

\* the scan of the empty buffer does return: every read meets the end of
\* the buffer, and the length read as ~0 moves the cursor to 2^32 - 1,
\* which is len - 1
EmptyBufferReturns ==
    (hdr.buffer = <<>> /\ last.op # "none") => ~ScanRepeats

\* C20 (as claimed): within one scan the cursor never moves backwards: no
\* stretch of begin, be it reads, a skip or a seek (the seek by ~0 that stands
\* for a declared length of 0 or >= 0x7FFF0000 among them), leaves data_pos
\* below where it was.
C20_CursorNeverBack == [][Scanning(hdr) => Ge32(hdr'.data_pos, hdr.data_pos)]_vars

\* what the code guarantees: only the seeks of begin (lines 61, 67, 111 and
\* 119) move the cursor backwards; the reads and skips of the loops do not
OnlySeeksGoBack ==
    [][hdr.pc \in {"outer", "inner"} => Ge32(hdr'.data_pos, hdr.data_pos)]_vars

----------------------------------------------------------------------------
(* The encoder in budget mode: one session with a finite data_length under *)
(* file sizes of every kind, written to a sink that accepts every byte.    *)

\* descriptors with a finite data_length; file_size is data_length + 36 as
\* defaultConfig sets it, data_length + 44 (the 44 header bytes counted),
\* or bears no relation to data_length
BudgetInfos ==
    {[format |-> WAV_FORMAT_PCM, sample_rate |-> U(8000), bits_per_sample |-> U(16),
      channels |-> U(2), byte_rate |-> Zero32, block_align |-> Zero32,
      is_streamed |-> FALSE, is_valid |-> TRUE, data_length |-> dl,
      file_size |-> IF fs[1] THEN Add32(dl, fs[2]) ELSE fs[2]] :
        dl \in {U(2), U(5)},
        fs \in {<<TRUE, U(36)>>, <<TRUE, U(44)>>, <<FALSE, Zero32>>,
                <<FALSE, U(44)>>, <<FALSE, AllOnes>>}}

InitBudget ==
    /\ enc \in [stream_ptr : {"out"}, audioInfo : {defaultConfig}, size_limit : {0, 2},
                header_written : {FALSE}, is_open : BOOLEAN]
    /\ sink = [data |-> <<>>, offered |-> <<>>, room |-> -1, flushes |-> 0]
    /\ sess = [begun |-> FALSE, start |-> 0, N |-> 0, bounded |-> FALSE,
               requested |-> 0, writes |-> 0, declared |-> Zero32, asked |-> FALSE]
    /\ hdr = NewHeader /\ snd = NoSlice /\ inp = NoInput
    /\ last = NoCall
    /\ dec = 0 /\ lis = 0
    /\ cnv = 0 /\ pcm = 0
    /\ crashed = FALSE
    /\ steps = 0

\* begin(ai); the descriptor is kept in inp
DoBudgetBegin ==
    /\ ~crashed /\ steps < MaxSteps
    /\ ~sess.begun
    /\ \E ai \in BudgetInfos :
        /\ enc' = EncBegin(enc, ai)
        /\ sess' = NewSession(ai)
        /\ inp' = ai
    /\ last' = Called("begin", 0, 0)
    /\ steps' = steps + 1
    /\ UNCHANGED <<sink, crashed, hdr, snd, decVars, cnvVars>>

DoBudgetWrite ==
    /\ ~crashed /\ steps < MaxSteps
    /\ \E buf \in EncBuffers : \E o \in EncWrite(enc, sink, buf) :
        /\ enc' = o.enc
        /\ sink' = o.sink
        /\ crashed' = o.crashed
        /\ last' = Called("write", o.ret, Len(buf))
        /\ sess' = IF enc.is_open
                   THEN [sess EXCEPT !.requested = @ + Len(buf), !.writes = @ + 1]
                   ELSE sess
    /\ steps' = steps + 1
    /\ UNCHANGED <<hdrVars, decVars, cnvVars>>

NextBudget == DoBudgetBegin \/ DoBudgetWrite

SpecBudget == InitBudget /\ [][NextBudget]_vars

----------------------------------------------------------------------------
(* Claims about the data size in the header, checked under SpecBudget *)

\* the header of the session is in the sink
HeaderEmitted == sess.begun /\ Len(SessionData) >= 44

\* the size in the `data` chunk header: bytes 40 .. 43 of the session,
\* little-endian
AnnouncedDataSize ==
    W(SessionData[44] * 256 + SessionData[43], SessionData[42] * 256 + SessionData[41])

\* the session has closed on its own: it was opened by begin, there is no
\* end() in this specification
AutoClosed == sess.begun /\ ~enc.is_open

\* C21 (as claimed): in bounded mode the size written into the `data` chunk
\* header equals the byte budget (the declared data_length), and the payload
\* bytes emitted before the session closes on its own add up to that size,
\* for every data_length and file_size.
C21_AnnouncedSizeIsBudget ==
    HeaderEmitted =>
        /\ AnnouncedDataSize = sess.declared
        /\ AutoClosed => U(SessionPayload) = AnnouncedDataSize

\* what the code does: the size written is file_size - 44, whatever the
\* data_length; the payload emitted up to the close is data_length
AnnouncedSizeFromFileSize ==
    HeaderEmitted =>
        /\ AnnouncedDataSize = Sub32(inp.file_size, U(44))
        /\ AutoClosed => U(SessionPayload) = sess.declared

----------------------------------------------------------------------------
(* Claims about scans that follow each other on one WAVHeader, checked     *)
(* under SpecHdr.  last.stale tells whether the object held a sound_pos    *)
(* other than 0 when the last begin was entered.                           *)

\* what soundData answers is what it answers on a WAVHeader that has
\* scanned nothing but the buffer of the last begin
AsOnFreshHeader ==
    \E r \in {soundData(HeaderBegin(NewHeader, hdr.buffer))} :
        snd.ok = r.ok /\ snd.pos = r.pos /\ snd.len = r.len

\* the slice reported lies inside the buffer of the last begin
SliceInsideBuffer == Nat32(snd.pos) + Nat32(snd.len) <= Len(hdr.buffer)

\* C22 (as claimed): the scanner is stateless per call: after any sequence
\* of begin calls on one object, soundData returns true only if the most
\* recent scan found a data chunk in its own buffer, with a slice inside
\* that buffer; a position left by an earlier scan is never reported.
C22_StatelessPerCall ==
    Sliced => AsOnFreshHeader /\ (snd.ok => SliceInsideBuffer)

\* what the code guarantees: the same, provided no position of an earlier
\* scan was left unconsumed when begin was entered
StatelessOnceConsumed ==
    (Sliced /\ ~last.stale) => AsOnFreshHeader /\ (snd.ok => SliceInsideBuffer)

----------------------------------------------------------------------------
(* CallbackConverter *)

\* functions a caller hands to the constructor as `converter`
Callbacks == {"negate", "widen"}

\* (*convert_ptr)(v)
CallConverter(ptr, v) == IF ptr = "negate" THEN -v ELSE v * 256

ConvertedFrame(c, f) ==
    <<CallConverter(c.convert_ptr, f[1]), CallConverter(c.convert_ptr, f[2])>>

\* the loop of convert from index i down to 1, lines 274-277, on arrays
\* indexed from 0
RECURSIVE CallbackLoop(_, _, _, _)
CallbackLoop(c, src, target, i) ==
    IF i > 0
    THEN CallbackLoop(c, src, [target EXCEPT ![i] = ConvertedFrame(c, src[i])], i - 1)
    ELSE target

\* what a read of src[cap], one frame behind the caller's array, can yield
StrayFrames == {<<0, 0>>, <<5, 0>>}

\* CallbackConverter::convert(src, target, size) on arrays of p.cap frames.
\* With size < cap every index the loop touches is inside the arrays.
\* With size = cap the first pass reads src[cap] and writes target[cap],
\* both behind the arrays: the call traps, or it reads whatever lies behind
\* src and overwrites what lies behind target (p.behind).
CallbackConvert(c, p, size) ==
    IF size < p.cap
    THEN {[pcm |-> [p EXCEPT !.target = CallbackLoop(c, p.src, p.target, size)],
           crashed |-> FALSE]}
    ELSE {[pcm |-> p, crashed |-> TRUE]}
         \cup {[pcm |-> [p EXCEPT !.target = [i \in 0..(p.cap - 1) |-> t[i]],
                                  !.behind = t[p.cap]],
                 crashed |-> FALSE] :
                   t \in {CallbackLoop(c,
                                       [i \in 0..p.cap |-> IF i = p.cap THEN g ELSE p.src[i]],
                                       [i \in 0..p.cap |-> IF i = p.cap THEN p.behind
                                                                        ELSE p.target[i]],
                                       size) : g \in StrayFrames}}

----------------------------------------------------------------------------
(* CallbackConverter driven by a caller, who owns two arrays of one or two *)
(* frames and converts a leading part of them, again and again             *)

CallbackSamples == {-1, 2}

CallbackFrames == {<<l, r>> : l \in CallbackSamples, r \in CallbackSamples}

\* what the caller's target array and the memory behind it hold at first
Untouched == <<7, 7>>

CallbackArrays ==
    {[cap |-> 1, src |-> [i \in 0..0 |-> f], target |-> [i \in 0..0 |-> Untouched],
      behind |-> Untouched] : f \in CallbackFrames}
    \cup {[cap |-> 2, src |-> [i \in 0..1 |-> IF i = 0 THEN f ELSE g],
           target |-> [i \in 0..1 |-> Untouched], behind |-> Untouched] :
               f \in CallbackFrames, g \in CallbackFrames}

\* CallbackConverter(converter)
InitCallback ==
    /\ cnv \in [convert_ptr : Callbacks]
    /\ pcm \in CallbackArrays
    /\ last = [op |-> "none", size |-> 0, pcm |-> pcm]
    /\ sess = 0
    /\ enc = 0 /\ sink = 0
    /\ hdr = 0 /\ snd = 0 /\ inp = 0
    /\ dec = 0 /\ lis = 0
    /\ crashed = FALSE
    /\ steps = 0

DoCallbackConvert ==
    /\ ~crashed
    /\ steps < MaxConverts
    /\ \E size \in 0..pcm.cap :
        \E o \in CallbackConvert(cnv, pcm, size) :
            /\ pcm' = o.pcm
            /\ crashed' = o.crashed
            /\ last' = [op |-> "convert", size |-> size, pcm |-> pcm]
    /\ steps' = steps + 1
    /\ UNCHANGED <<cnv, encVars, sink, hdrVars, decVars>>

NextCallback == DoCallbackConvert

SpecCallback == InitCallback /\ [][NextCallback]_vars

----------------------------------------------------------------------------
(* Claims about CallbackConverter, checked under SpecCallback *)

\* C23: convert(src, target, size) writes target[i] = converter(src[i])
\* for both channels of every frame index i in 0..size-1, and reads or
\* writes no frame index outside 0..size-1.
C23_EveryFrameConverted ==
    last.op = "convert" =>
        /\ ~crashed
        /\ \A i \in 0..(last.size - 1) :
               pcm.target[i] = ConvertedFrame(cnv, last.pcm.src[i])
        /\ \A i \in last.size..(pcm.cap - 1) : pcm.target[i] = last.pcm.target[i]
        /\ pcm.behind = last.pcm.behind

\* what convert does when it returns: the frames at 1..size are converted
\* (the one at size only if the arrays hold it), the frame at 0 and those
\* behind size are left alone
CallbackOneOff ==
    (last.op = "convert" /\ ~crashed) =>
        /\ pcm.target[0] = last.pcm.target[0]
        /\ \A i \in 1..Min(last.size, pcm.cap - 1) :
               pcm.target[i] = ConvertedFrame(cnv, last.pcm.src[i])
        /\ \A i \in (last.size + 1)..(pcm.cap - 1) : pcm.target[i] = last.pcm.target[i]
        /\ last.size < pcm.cap => pcm.behind = last.pcm.behind

\* nothing happens for size 0, and only a call with size = cap can trap
CallbackSafeBelowCap ==
    /\ (last.op = "convert" /\ last.size = 0) => (~crashed /\ pcm = last.pcm)
    /\ crashed => last.size = pcm.cap

====
